---- MODULE Spec2Model ----
(***************************************************************************)
(* QuickStatements batch worker (magnusmanske/quickstatements_rs).         *)
(*                                                                         *)
(* The model covers the scheduler (bin/main.rs), the queue gateway         *)
(* (qs_config.rs: tables `batch` and `command`, the running set and the    *)
(* per-user counter) and the per-batch executor (qs_bot.rs), together with *)
(* the part of the wiki the executor talks to.                             *)
(*                                                                         *)
(* Strings are sequences of one-character strings, so that trim and        *)
(* to_uppercase are computed and not assumed.  Option<T> is a sequence of  *)
(* length 0 (None) or 1 (Some).                                            *)
(***************************************************************************)
EXTENDS Integers, Sequences, FiniteSets, TLC

\* ------------------------------------------------------------------ bounds
NumBatches == 3
MaxFaults == 1

\* ------------------------------------------------------- program constants
max_batches_per_user == 2
MinReinitBatchId == 12000

\* ------------------------------------------------------------------ options
None == <<>>
Some(x) == <<x>>
IsSome(o) == Len(o) = 1
IsNone(o) == Len(o) = 0
Unwrap(o) == o[1]

\* ------------------------------------------------------------------ strings
Str_LAST == <<"L", "A", "S", "T">>
Str_last_padded == <<" ", "l", "a", "s", "t">>
Str_Q1 == <<"Q", "1">>
Str_Q5 == <<"Q", "5">>
Str_empty == <<>>
Str_CREATE == <<"C", "R", "E", "A", "T", "E">>
Str_MERGE == <<"M", "E", "R", "G", "E">>

LowerLetters == {"a", "b", "c", "d", "e", "f", "g", "h", "i", "j", "k", "l", "m", "n", "o",
                 "p", "q", "r", "s", "t", "u", "v", "w", "x", "y", "z"}
UpperLetters == {"A", "B", "C", "D", "E", "F", "G", "H", "I", "J", "K", "L", "M", "N", "O",
                 "P", "Q", "R", "S", "T", "U", "V", "W", "X", "Y", "Z"}

Upper(c) ==
    CASE c = "l" -> "L"
      [] c = "a" -> "A"
      [] c = "s" -> "S"
      [] c = "t" -> "T"
      [] c = "q" -> "Q"
      [] c = "c" -> "C"
      [] c = "r" -> "R"
      [] c = "e" -> "E"
      [] c = "m" -> "M"
      [] c = "g" -> "G"
      [] c = "p" -> "P"
      [] c = "n" -> "N"
      [] c = "w" -> "W"
      [] c = "i" -> "I"
      [] c = "k" -> "K"
      [] c = "x" -> "X"
      [] c = "y" -> "Y"
      [] c = "z" -> "Z"
      [] c = "b" -> "B"
      [] c = "d" -> "D"
      [] c = "f" -> "F"
      [] c = "h" -> "H"
      [] c = "j" -> "J"
      [] c = "o" -> "O"
      [] c = "u" -> "U"
      [] c = "v" -> "V"
      [] OTHER -> c

to_uppercase(s) == [k \in 1..Len(s) |-> Upper(s[k])]

RECURSIVE trim_start(_)
trim_start(s) == IF Len(s) > 0 /\ Head(s) = " " THEN trim_start(Tail(s)) ELSE s

RECURSIVE trim_end(_)
trim_end(s) ==
    IF Len(s) > 0 /\ s[Len(s)] = " " THEN trim_end(SubSeq(s, 1, Len(s) - 1)) ELSE s

trim(s) == trim_end(trim_start(s))

\* qs_bot.rs fix_entity_id: id.trim().to_uppercase()
fix_entity_id(id) == to_uppercase(trim(id))

\* qs_bot.rs get_entity_id_option: applied to an Option<&str>
get_entity_id_option(v) == IF IsSome(v) THEN Some(fix_entity_id(Unwrap(v))) ELSE None

Digits == {"0", "1", "2", "3", "4", "5", "6", "7", "8", "9"}

\* ------------------------------------------------------------ command JSON
\* The fields of command.json the executor reads and writes: action, what,
\* item, the entity id of datavalue and of qualifier.value (both of type
\* wikibase-entityid), and meta.message ("" while there is none).
cmd_create ==
    [action |-> "create", what |-> "", item |-> None, dv |-> None, qualifier |-> None,
     meta |-> ""]
cmd_label(item) ==
    [action |-> "add", what |-> "label", item |-> Some(item), dv |-> None,
     qualifier |-> None, meta |-> ""]
cmd_statement(action, item, value) ==
    [action |-> action, what |-> "statement", item |-> Some(item), dv |-> Some(value),
     qualifier |-> None, meta |-> ""]
cmd_qualifier(item, value, qvalue) ==
    [action |-> "add", what |-> "qualifier", item |-> Some(item), dv |-> Some(value),
     qualifier |-> Some(qvalue), meta |-> ""]
cmd_merge(item1, item2) ==
    [action |-> "merge", what |-> "", item |-> None, dv |-> None, qualifier |-> None,
     meta |-> "", item1 |-> Some(item1), item2 |-> Some(item2)]

\* error.info of the wiki's answers
Msg_throttled == "actionthrottledtext"
Msg_qualifier_exists == "Claim has already a qualifier with hash"
Msg_rejected == "modification-failed"

\* The command lists submitted as batches; batches are created outside the
\* worker with every command INIT.
Programs ==
    << <<cmd_create, cmd_label(Str_last_padded)>>,
       <<cmd_statement("add", Str_LAST, Str_Q5), cmd_statement("add", Str_Q1, Str_LAST)>>,
       <<cmd_statement("remove", Str_last_padded, Str_Q5), cmd_statement("add", Str_Q1, Str_Q5),
         cmd_statement("remove", Str_last_padded, Str_Q5)>> >>

Batches == (MinReinitBatchId + 1)..(MinReinitBatchId + NumBatches)
ProgramOf(b) == Programs[((b - MinReinitBatchId - 1) % Len(Programs)) + 1]
\* column batch.user: the first three batches belong to one user
UserOf(b) == IF b - MinReinitBatchId <= max_batches_per_user + 1 THEN 1 ELSE 2
Users == {UserOf(b) : b \in Batches}

\* ids the wiki gives to new entities
NewIds == << <<"Q", "6">>, <<"Q", "7">>, <<"Q", "8">>, <<"Q", "9">> >>

VARIABLES
    batch_status,       \* table batch, column status
    batch_last_item,    \* table batch, column last_item: None is NULL
    ts_order,           \* table batch ordered by ts_last_change, oldest first
    command_rows,       \* table command: per batch, rows in num order
    running_batch_ids,  \* QuickStatements.running_batch_ids
    user_counter,       \* QuickStatements.user_counter (an absent key reads as 0)
    main_pc,            \* command_bot: "boot" before reset_all_running_batches, then "loop"
                        \* ("start" in run_bot between get_next_batch and start)
    bots,               \* the spawned executors (QuickStatementsBot), per batch
    wiki_entities,      \* ids of the entities that exist on the wiki
    wiki_claims,        \* <<entity id, value id>>: statements on the wiki
    wiki_labels,        \* entities that carry the label the batches set
    wiki_quals,         \* <<entity id, value id, qualifier value id>>: qualifiers
    wire,               \* every action posted to the wiki API
    dispatched,         \* history: per batch, the nums marked RUN, in order
    run_start,          \* history: Len(dispatched[b]) when b was last claimed
    faults,            \* number of environment faults so far: process deaths, failed store queries
    seppuku_pc,         \* the task seppuku spawns: "none", "check", "sleep", "ended"
    last_bot_run,       \* age of last_bot_run: "recent", or "old" (more than
                        \* MAX_INACTIVITY_BEFORE_SEPPUKU_SEC ago)
    lines,              \* command_parse, command_run: the lines read from stdin
    main_item,          \* the wikibase::Entity a command is compiled against
    parse_pc,           \* position in command_parse / command_run; "off" in the worker
    commands,           \* per line, the Result of QuickStatementsParser::new_from_line
    compressed,         \* command_parse: the commands after compress
    commands_json,      \* command_parse: the JSON it prints (compressed)
    run_json,           \* command_run: the JSON of the lines, line by line
    actions,            \* per JSON of run_json, the Result of action_to_execute
    kb_run,             \* the knowledge base after command_run has run the lines
    kb_batch,           \* the knowledge base after a batch of commands_json has run
    value_pc,           \* the comparison of two datavalues: "off", "start", "done"
    claim_dv,           \* is_same_datavalue: the datavalue of a claim of the entity
    command_dv,         \* is_same_datavalue: the datavalue of the command JSON
    same,               \* the Option<bool> is_same_datavalue returned
    substituted,        \* last_entity_id, and per JSON of run_json the JSON the
                        \* executor holds once LAST is replaced
    next_batch,         \* run_bot: the tuple get_next_batch returned, held until
                        \* QuickStatementsBot::start has run
    time_pc,            \* parse_time: "off", "start", "done"
    time_text,          \* parse_time: the text of the value
    time_value,         \* the Option<Value> parse_time returned
    task_pc,            \* per batch, the lock its task takes next in set_batch_running
                        \* or deactivate_batch_run; "none" outside a call
    task_cnt            \* per batch, the local user_counter of the call in progress

vars == <<batch_status, batch_last_item, ts_order, command_rows, running_batch_ids,
          user_counter, main_pc, bots, wiki_entities, wiki_claims, wiki_labels,
          wiki_quals, wire, dispatched, run_start, faults, seppuku_pc, last_bot_run,
          lines, main_item, parse_pc, commands, compressed, commands_json, run_json,
          actions, kb_run, kb_batch, value_pc, claim_dv, command_dv, same,
          substituted, next_batch, time_pc, time_text, time_value, task_pc,
          task_cnt>>

sup_vars == <<seppuku_pc, last_bot_run>>
parse_vars == <<lines, main_item, parse_pc, commands, compressed, commands_json, run_json,
                actions, kb_run, kb_batch>>
time_vars == <<time_pc, time_text, time_value>>
task_vars == <<task_pc, task_cnt>>
value_vars == <<value_pc, claim_dv, command_dv, same, substituted, next_batch, time_vars,
                task_vars>>
parse_vars_but_pc == <<lines, main_item, commands, compressed, commands_json, run_json,
                       actions, kb_run, kb_batch>>
store_vars == <<batch_status, batch_last_item, ts_order, command_rows>>
wiki_vars == <<wiki_entities, wiki_claims, wiki_labels, wiki_quals, wire>>

\* the orders in which the batches can have been submitted
SubmissionOrders ==
    {s \in [1..NumBatches -> Batches] : \A i, j \in 1..NumBatches : i # j => s[i] # s[j]}

\* batch.last_item of a submitted batch: NULL, or the empty string where the
\* column has that default
SubmittedLastItems == {[b \in Batches |-> None], [b \in Batches |-> Some(Str_empty)]}

\* the rows of table command for a submitted command list
SubmittedRows(program) ==
    [n \in 1..Len(program) |-> [json |-> program[n], status |-> "INIT"]]

\* no datavalues are being compared
InitValuesOff ==
    /\ value_pc = "off"
    /\ claim_dv = <<>>
    /\ command_dv = <<>>
    /\ same = <<>>
    /\ substituted = <<>>
    /\ next_batch = <<>>
    /\ time_pc = "off"
    /\ time_text = <<>>
    /\ time_value = <<>>
    /\ task_pc = [b \in Batches |-> "none"]
    /\ task_cnt = [b \in Batches |-> 0]

\* no command line tool is running
InitParseOff ==
    /\ InitValuesOff
    /\ parse_pc = "off"
    /\ lines = <<>>
    /\ main_item = <<>>
    /\ commands = <<>>
    /\ compressed = <<>>
    /\ commands_json = <<>>
    /\ run_json = <<>>
    /\ actions = <<>>
    /\ kb_run = <<>>
    /\ kb_batch = <<>>

\* the worker before command_bot, and the wiki
InitWorker ==
    /\ InitParseOff
    /\ batch_status = [b \in Batches |-> "INIT"]
    /\ running_batch_ids = {}
    /\ user_counter = [u \in Users |-> 0]
    /\ main_pc = "boot"
    /\ bots = [b \in Batches |-> <<>>]
    /\ wiki_entities = {Str_Q1, Str_Q5}
    /\ wiki_claims = {}
    /\ wiki_labels = {}
    /\ wiki_quals = {}
    /\ wire = {}
    /\ dispatched = [b \in Batches |-> <<>>]
    /\ run_start = [b \in Batches |-> 0]
    /\ faults = 0
    /\ seppuku_pc = "none"
    /\ last_bot_run = "recent"

Init ==
    /\ InitWorker
    /\ batch_last_item \in SubmittedLastItems
    /\ ts_order \in SubmissionOrders
    /\ command_rows = [b \in Batches |-> SubmittedRows(ProgramOf(b))]

\* ======================================================= queue gateway
\* UPDATE ... SET ts_last_change = now: the row becomes the newest
Touch(order, b) == SelectSeq(order, LAMBDA x : x # b) \o <<b>>

\* json rlike '"item":"L\d' (get_next_batch leaves out batches that use lexemes)
UsesLexeme(rows) ==
    \E n \in 1..Len(rows) :
        LET item == rows[n].json.item IN
        /\ IsSome(item)
        /\ Len(Unwrap(item)) >= 2
        /\ Unwrap(item)[1] = "L"
        /\ Unwrap(item)[2] \in Digits

\* bad_users with the comparison off by one
bad_users_off_by_one == {u \in Users : user_counter[u] > max_batches_per_user}

\* users that already run the maximum of simultaneous batches
bad_users == {u \in Users : user_counter[u] >= max_batches_per_user}

\* get_next_batch without the look into running_batch_ids
get_next_batch_any_row ==
    LET rows == SelectSeq(ts_order, LAMBDA b :
                    /\ batch_status[b] \in {"INIT", "RUN"}
                    /\ ~UsesLexeme(command_rows[b])
                    /\ UserOf(b) \notin bad_users)
    IN  IF Len(rows) > 0 THEN Some(<<Head(rows), UserOf(Head(rows))>>) ELSE None

\* QuickStatements::get_next_batch: Option<(batch id, user)>
get_next_batch ==
    LET rows == SelectSeq(ts_order, LAMBDA b :
                    /\ batch_status[b] \in {"INIT", "RUN"}
                    /\ ~UsesLexeme(command_rows[b])
                    /\ UserOf(b) \notin bad_users)
        free == SelectSeq(rows, LAMBDA b : b \notin running_batch_ids)
    IN  IF Len(free) > 0 THEN Some(<<Head(free), UserOf(Head(free))>>) ELSE None

\* get_next_command without ORDER BY num: here the highest-num INIT row
get_next_command_unordered(rows) ==
    LET init == {n \in 1..Len(rows) : rows[n].status = "INIT"} IN
    IF init = {} THEN None
    ELSE Some(CHOOSE n \in init : \A m \in init : n >= m)

\* QuickStatements::get_next_command: the lowest-num row with status INIT
get_next_command(rows) ==
    LET init == {n \in 1..Len(rows) : rows[n].status = "INIT"} IN
    IF init = {} THEN None
    ELSE Some(CHOOSE n \in init : \A m \in init : n <= m)

\* QuickStatements::restart_batch, first UPDATE: status RUN unless TEST
restart_batch_status(status) == IF status # "TEST" THEN "RUN" ELSE status

\* an UPDATE without the condition on the command's status
restart_batch_all_commands(rows) ==
    [n \in 1..Len(rows) |-> [rows[n] EXCEPT !.status = "INIT"]]

\* QuickStatements::restart_batch, second UPDATE: the RUN commands become INIT
restart_batch_commands(rows) ==
    [n \in 1..Len(rows) |->
        IF rows[n].status = "RUN" THEN [rows[n] EXCEPT !.status = "INIT"] ELSE rows[n]]

\* QuickStatements::reinitialize_open_batches
reinitialize_open_batches(status, rows) ==
    [b \in Batches |->
        IF /\ status[b] = "DONE"
           /\ b > MinReinitBatchId
           /\ \E n \in 1..Len(rows[b]) : rows[b][n].status = "INIT"
        THEN "INIT" ELSE status[b]]

\* QuickStatements::set_last_item_for_batch: None is written as ""
last_item_column(last_item) == IF IsSome(last_item) THEN Some(Unwrap(last_item)) ELSE Some(Str_empty)

\* QuickStatements::get_last_item_from_batch: Bytes(x) => Some(x), NULL => None
get_last_item_from_batch(column) == IF IsSome(column) THEN Some(Unwrap(column)) ELSE None

\* ============================================================ executor
\* The steps of execute_command work on a record x:
\*   last, cur    QuickStatementsBot.last_entity_id, .current_entity_id
\*   cache        QuickStatementsBot.entities: snapshots [id, claims, label]
\*   json         command.json
\*   we, wc, wl, wq  the wiki (entities, claims, labels, qualifiers)
\*   info         error.info of the answer, when the request itself fails
\*   sent         the actions posted to the wiki API by this command
\*   res          "Ok" or "Err": the Result the step returns
\*   batch        QuickStatementsBot.batch_id

Err(x) == [x EXCEPT !.res = "Err"]

snapshot(id, wc, wl) ==
    [id |-> id, claims |-> {c[2] : c \in {d \in wc : d[1] = id}}, label |-> id \in wl]

cached(x, id) == CHOOSE e \in x.cache : e.id = id

\* QuickStatementsBot::load_command_items (json carries no "id", so the
\* special case for statements without an item does not apply)
load_command_items(x) ==
    LET cur0 == get_entity_id_option(x.json.item)
        cur1 == IF cur0 = Some(Str_LAST) THEN x.last ELSE cur0
    IN  [x EXCEPT !.cur = cur1,
                  !.json = IF IsSome(cur1) THEN [x.json EXCEPT !.item = cur1] ELSE x.json]

\* QuickStatementsBot::replace_last_item on an entity-id datavalue
replace_last_item(last, v) ==
    IF IsNone(v) THEN v
    ELSE IF IsNone(last) THEN v
    ELSE IF fix_entity_id(Unwrap(v)) = Str_LAST THEN Some(Unwrap(last))
    ELSE v

\* QuickStatementsBot::insert_last_item_into_sources_and_qualifiers
insert_last_item_into_sources_and_qualifiers(x) ==
    [x EXCEPT !.json = [x.json EXCEPT !.dv = replace_last_item(x.last, x.json.dv),
                                      !.qualifier = replace_last_item(x.last, x.json.qualifier)]]

\* QuickStatementsBot::get_item_from_command: load_entities reads the wiki only
\* for an id that is not cached
get_item_from_command(x) ==
    IF IsNone(x.json.item) THEN Err(x)
    ELSE LET q == Unwrap(x.json.item) IN
         IF \E e \in x.cache : e.id = q THEN x
         ELSE IF q \in x.we THEN [x EXCEPT !.cache = @ \cup {snapshot(q, x.wc, x.wl)}]
         ELSE Err(x)

\* QuickStatementsBot::reset_entities; entity is the id in res["entity"], if any
reset_entities(x, entity) ==
    IF IsSome(x.json.item) /\ to_uppercase(Unwrap(x.json.item)) # Str_LAST
    THEN LET q == Unwrap(x.json.item) IN
         [x EXCEPT !.last = Some(q), !.cache = {e \in @ : e.id # q}]
    ELSE IF IsSome(entity)
    THEN LET q == Unwrap(entity) IN
         [x EXCEPT !.last = Some(q),
                   !.cache = {e \in @ : e.id # q} \cup {snapshot(q, x.wc, x.wl)}]
    ELSE x

wire_action(x, action, entity, value) ==
    [batch |-> x.batch, action |-> action, entity |-> entity, value |-> value,
     qualifier |-> x.json.qualifier]

\* The wiki: which posted actions it can carry out at all
next_new_id(we) ==
    LET free == SelectSeq(NewIds, LAMBDA q : q \notin we) IN
    IF Len(free) > 0 THEN Some(Head(free)) ELSE None

wiki_accepts(x, act) ==
    CASE act.action = "wbeditentity" -> IsSome(next_new_id(x.we))
      [] act.action = "wbsetlabel" -> Unwrap(act.entity) \in x.we
      [] act.action = "wbcreateclaim" ->
            Unwrap(act.entity) \in x.we /\ Unwrap(act.value) \in x.we
      [] act.action = "wbremoveclaims" ->
            <<Unwrap(act.entity), Unwrap(act.value)>> \in x.wc
      [] act.action = "wbsetqualifier" ->
            /\ <<Unwrap(act.entity), Unwrap(act.value)>> \in x.wc
            /\ Unwrap(act.qualifier) \in x.we
            /\ <<Unwrap(act.entity), Unwrap(act.value), Unwrap(act.qualifier)>> \notin x.wq
      [] act.action = "wbmergeitems" ->
            /\ Unwrap(act.entity) \in x.we /\ Unwrap(act.value) \in x.we
            /\ Unwrap(act.entity) # Unwrap(act.value)
      [] OTHER -> FALSE

\* error.info of the answer with which the wiki rejects act
wiki_error_info(x, act) ==
    IF /\ act.action = "wbsetqualifier"
       /\ <<Unwrap(act.entity), Unwrap(act.value), Unwrap(act.qualifier)>> \in x.wq
    THEN Msg_qualifier_exists
    ELSE Msg_rejected

\* The wiki after it has carried out act
wiki_apply(x, act) ==
    CASE act.action = "wbeditentity" -> [x EXCEPT !.we = @ \cup {Unwrap(next_new_id(x.we))}]
      [] act.action = "wbsetlabel" -> [x EXCEPT !.wl = @ \cup {Unwrap(act.entity)}]
      [] act.action = "wbcreateclaim" ->
            [x EXCEPT !.wc = @ \cup {<<Unwrap(act.entity), Unwrap(act.value)>>}]
      [] act.action = "wbremoveclaims" ->
            [x EXCEPT !.wc = @ \ {<<Unwrap(act.entity), Unwrap(act.value)>>},
                      !.wq = {q \in @ : <<q[1], q[2]>> # <<Unwrap(act.entity), Unwrap(act.value)>>}]
      [] act.action = "wbsetqualifier" ->
            [x EXCEPT !.wq = @ \cup {<<Unwrap(act.entity), Unwrap(act.value),
                                       Unwrap(act.qualifier)>>}]
      [] act.action = "wbmergeitems" ->
            LET from == Unwrap(act.entity)
                to == Unwrap(act.value)
            IN  [x EXCEPT !.wc = {c \in @ : c[1] # from}
                                     \cup {<<to, c[2]>> : c \in {d \in @ : d[1] = from}},
                          !.wl = (@ \ {from}) \cup (IF from \in @ THEN {to} ELSE {}),
                          !.wq = {q \in @ : q[1] # from}
                                     \cup {<<to, q[2], q[3]>> : q \in {d \in @ : d[1] = from}}]
      [] OTHER -> x

\* QuickStatementsBot::run_action: post the action.  api_ok: the request gets
\* through to the wiki's own verdict; otherwise it fails, with x.info as
\* error.info of the answer ("" when there is no answer).  An answer without
\* the success flag is an Err, and its error.info goes into json.meta.message.
run_action(x, act, api_ok) ==
    LET x1 == [x EXCEPT !.sent = @ \cup {act}]
        info == IF api_ok THEN wiki_error_info(x1, act) ELSE x1.info
    IN  IF api_ok /\ wiki_accepts(x1, act)
        THEN LET entity == IF act.action = "wbeditentity" THEN next_new_id(x1.we) ELSE None
             IN  reset_entities(wiki_apply(x1, act), entity)
        ELSE IF info # ""
        THEN Err([x1 EXCEPT !.json = [x1.json EXCEPT !.meta = info]])
        ELSE Err(x1)

\* QuickStatementsBot::merge_entities
merge_entities(x, api_ok) ==
    IF IsNone(x.json.item1) \/ IsNone(x.json.item2) THEN Err(x)
    ELSE run_action(x, wire_action(x, "wbmergeitems", x.json.item1, x.json.item2), api_ok)

\* QuickStatementsBot::create_new_entity
create_new_entity(x, api_ok) ==
    run_action(x, wire_action(x, "wbeditentity", None, None), api_ok)

\* QuickStatementsBot::set_label
set_label(x, api_ok) ==
    LET x1 == get_item_from_command(x) IN
    IF x1.res = "Err" THEN x1
    ELSE LET i == cached(x1, Unwrap(x1.json.item)) IN
         IF i.label THEN x1
         ELSE run_action(x1, wire_action(x1, "wbsetlabel", Some(i.id), None), api_ok)

\* QuickStatementsBot::get_statement_id on the loaded item i: Entity values are
\* the same when their ids are the same strings
get_statement_id(x, i) ==
    IF IsSome(x.json.dv) /\ Unwrap(x.json.dv) \in i.claims THEN x.json.dv ELSE None

\* QuickStatementsBot::add_statement
add_statement(x, api_ok) ==
    LET x1 == insert_last_item_into_sources_and_qualifiers(x)
        x2 == get_item_from_command(x1)
    IN  IF x2.res = "Err" THEN x2
        ELSE LET i == cached(x2, Unwrap(x2.json.item)) IN
             IF IsSome(get_statement_id(x2, i)) THEN x2
             ELSE run_action(x2, wire_action(x2, "wbcreateclaim", Some(i.id), x2.json.dv),
                             api_ok)

\* QuickStatementsBot::add_qualifier: the statement is found by
\* get_statement_id; the qualifiers the statement has are not looked at
add_qualifier(x, api_ok) ==
    LET x1 == insert_last_item_into_sources_and_qualifiers(x)
        x2 == get_item_from_command(x1)
    IN  IF x2.res = "Err" THEN x2
        ELSE LET i == cached(x2, Unwrap(x2.json.item)) IN
             IF IsNone(get_statement_id(x2, i)) THEN Err(x2)
             ELSE IF IsNone(x2.json.qualifier) THEN Err(x2)
             ELSE run_action(x2, wire_action(x2, "wbsetqualifier", Some(i.id), x2.json.dv),
                             api_ok)

\* QuickStatementsBot::remove_statement
remove_statement(x, api_ok) ==
    LET x1 == get_item_from_command(x) IN
    IF x1.res = "Err" THEN x1
    ELSE LET i == cached(x1, Unwrap(x1.json.item)) IN
         IF IsNone(get_statement_id(x1, i)) THEN Err(x1)
         ELSE run_action(x1, wire_action(x1, "wbremoveclaims", Some(i.id), x1.json.dv),
                         api_ok)

\* QuickStatementsBot::add_to_entity (the kinds of command the batches hold)
add_to_entity(x, api_ok) ==
    LET x1 == load_command_items(x) IN
    IF IsNone(x1.cur) THEN Err(x1)
    ELSE CASE x1.json.what = "label" -> set_label(x1, api_ok)
           [] x1.json.what = "statement" -> add_statement(x1, api_ok)
           [] x1.json.what = "qualifier" -> add_qualifier(x1, api_ok)
           [] OTHER -> Err(x1)

\* QuickStatementsBot::remove_from_entity
remove_from_entity(x, api_ok) ==
    LET x1 == insert_last_item_into_sources_and_qualifiers(load_command_items(x)) IN
    IF IsNone(x1.cur) THEN Err(x1)
    ELSE CASE x1.json.what = "statement" -> remove_statement(x1, api_ok)
           [] OTHER -> Err(x1)

\* QuickStatementsBot::execute_command after the RUN write: the action
command_result(x, api_ok) ==
    CASE x.json.action = "create" -> create_new_entity(x, api_ok)
      [] x.json.action = "merge" -> merge_entities(x, api_ok)
      [] x.json.action = "add" -> add_to_entity(x, api_ok)
      [] x.json.action = "remove" -> remove_from_entity(x, api_ok)
      [] OTHER -> Err(x)

\* execute_command dropping the result: every command is recorded as DONE
terminal_status_result_dropped(res) == "DONE"

\* execute_command recording only success: an Err leaves the status as it is
terminal_status_ok_only(res) == IF res = "Err" THEN "RUN" ELSE "DONE"

\* QuickStatementsBot::execute_command: the status the result is recorded as
terminal_status(res) == IF res = "Err" THEN "ERROR" ELSE "DONE"

\* QuickStatementsBot::set_command_status: last_entity_id after the write
last_entity_id_after(status, last, cur) == IF status = "DONE" THEN cur ELSE last

\* ============================================================= actions
\* reset_all_running_batches: every RUN batch reverts to INIT
reset_all_running_batches(status) ==
    [b \in Batches |-> IF status[b] = "RUN" THEN "INIT" ELSE status[b]]

\* a startup that goes to the polling loop without the reset
command_bot_without_reset ==
    /\ main_pc = "boot"
    /\ main_pc' = "loop"
    /\ last_bot_run' = "recent"
    /\ seppuku_pc' = "check"
    /\ UNCHANGED <<parse_vars, value_vars, store_vars, running_batch_ids,
                   user_counter, bots, wiki_vars, dispatched, run_start, faults>>

\* command_bot, up to the polling loop
command_bot ==
    /\ main_pc = "boot"
    /\ batch_status' = reset_all_running_batches(batch_status)
    /\ main_pc' = "loop"
    /\ last_bot_run' = "recent"
    /\ seppuku_pc' = "check"
    /\ UNCHANGED <<parse_vars, value_vars, batch_last_item, ts_order, command_rows,
                   running_batch_ids,
                   user_counter, bots, wiki_vars, dispatched, run_start, faults>>

\* QuickStatementsBot::new
new_bot(last_entity_id) ==
    [pc |-> "run", last_entity_id |-> last_entity_id, current_entity_id |-> None,
     entities |-> {}, command |-> None]

\* run_bot with a batch to start: get_next_batch, QuickStatementsBot::start
\* (restart_batch, get_last_item_from_batch, set_batch_running) and the spawn of
\* the executor.  Without a batch run_bot returns and changes nothing.
bot_start(b, user) ==
    /\ LET restarted == [batch_status EXCEPT ![b] = restart_batch_status(@)]
           rows == [command_rows EXCEPT ![b] = restart_batch_commands(@)]
       IN  /\ command_rows' = rows
           /\ ts_order' = IF batch_status[b] # "TEST" THEN Touch(ts_order, b) ELSE ts_order
           /\ batch_status' = reinitialize_open_batches(restarted, rows)
           /\ running_batch_ids' = running_batch_ids \cup {b}
           /\ user_counter' = [user_counter EXCEPT ![user] = @ + 1]
           /\ bots' = [bots EXCEPT ![b] =
                          Append(@, new_bot(get_last_item_from_batch(batch_last_item[b])))]
           /\ run_start' = [run_start EXCEPT ![b] = Len(dispatched[b])]
    /\ last_bot_run' = "recent"
    /\ UNCHANGED <<parse_vars, batch_last_item, wiki_vars, dispatched, faults, seppuku_pc>>

run_bot ==
    /\ main_pc = "loop"
    /\ IsSome(get_next_batch)
    /\ bot_start(Unwrap(get_next_batch)[1], Unwrap(get_next_batch)[2])
    /\ UNCHANGED <<value_vars, main_pc>>

RemoveAt(seq, i) == SubSeq(seq, 1, i - 1) \o SubSeq(seq, i + 1, Len(seq))

\* QuickStatementsBot::run, a command is left: get_next_command and the first
\* step of execute_command (mark it RUN, write the batch's last_item)
run_take(b, i) ==
    /\ i \in DOMAIN bots[b]
    /\ bots[b][i].pc = "run"
    /\ IsSome(get_next_command(command_rows[b]))
    /\ LET bot == bots[b][i]
           n == Unwrap(get_next_command(command_rows[b]))
       IN  /\ command_rows' = [command_rows EXCEPT ![b][n].status = "RUN"]
           /\ batch_last_item' =
                  [batch_last_item EXCEPT ![b] = last_item_column(bot.last_entity_id)]
           /\ ts_order' = Touch(ts_order, b)
           /\ bots' = [bots EXCEPT ![b][i] =
                          [bot EXCEPT !.pc = "exec",
                                      !.current_entity_id = None,
                                      !.command = Some([num |-> n,
                                                        json |-> command_rows[b][n].json])]]
           /\ dispatched' = [dispatched EXCEPT ![b] = Append(@, n)]
    /\ UNCHANGED <<parse_vars, value_vars, batch_status, running_batch_ids, user_counter,
                   main_pc, wiki_vars,
                   run_start, faults, sup_vars>>

\* The executor record at the start of a command's action
executor_context(b, i, info) ==
    LET bot == bots[b][i] IN
    [last |-> bot.last_entity_id, cur |-> bot.current_entity_id,
     cache |-> bot.entities, json |-> Unwrap(bot.command).json,
     we |-> wiki_entities, wc |-> wiki_claims, wl |-> wiki_labels, wq |-> wiki_quals,
     sent |-> {}, res |-> "Ok", batch |-> b, info |-> info]

\* QuickStatementsBot::execute_command, from the action to the terminal
\* status, with x the executor record after the action
execute_command(b, i, x) ==
    LET bot == bots[b][i]
        n == Unwrap(bot.command).num
        status == terminal_status(x.res)
        last == last_entity_id_after(status, x.last, x.cur)
    IN  /\ command_rows' = [command_rows EXCEPT ![b][n] =
                               [json |-> x.json, status |-> status]]
        /\ batch_last_item' = [batch_last_item EXCEPT ![b] = last_item_column(last)]
        /\ ts_order' = Touch(ts_order, b)
        /\ bots' = [bots EXCEPT ![b][i] =
                       [bot EXCEPT !.pc = "run",
                                   !.last_entity_id = last,
                                   !.current_entity_id = x.cur,
                                   !.entities = x.cache,
                                   !.command = None]]
        /\ wiki_entities' = x.we
        /\ wiki_claims' = x.wc
        /\ wiki_labels' = x.wl
        /\ wiki_quals' = x.wq
        /\ wire' = wire \cup x.sent
        /\ UNCHANGED <<parse_vars, value_vars, batch_status, running_batch_ids, user_counter,
                       main_pc, dispatched,
                       run_start, faults, sup_vars>>

\* QuickStatementsBot::run executing the command it took: the wiki gives its
\* verdict on a posted action, or the request fails without an answer
run_execute(b, i) ==
    /\ i \in DOMAIN bots[b]
    /\ bots[b][i].pc = "exec"
    /\ \E api_ok \in BOOLEAN :
           execute_command(b, i, command_result(executor_context(b, i, ""), api_ok))

\* QuickStatements::set_batch_finished (set_batch_status and
\* deactivate_batch_run); the executor's loop ends
set_batch_finished(b, i) ==
    /\ batch_status' = [batch_status EXCEPT ![b] = "DONE"]
    /\ ts_order' = Touch(ts_order, b)
    /\ running_batch_ids' = running_batch_ids \ {b}
    /\ user_counter' = [user_counter EXCEPT ![UserOf(b)] = @ - 1]
    /\ bots' = [bots EXCEPT ![b] = RemoveAt(@, i)]

\* QuickStatementsBot::run, get_next_command returns None
run_finished(b, i) ==
    /\ i \in DOMAIN bots[b]
    /\ bots[b][i].pc = "run"
    /\ IsNone(get_next_command(command_rows[b]))
    /\ set_batch_finished(b, i)
    /\ UNCHANGED <<parse_vars, value_vars, batch_last_item, command_rows, main_pc, wiki_vars,
                   dispatched,
                   run_start, faults, sup_vars>>

\* The process dies (it is killed, or exits) and is started again: the executors
\* and the in-memory running set and counters are gone, the store is kept
Crash ==
    /\ faults < MaxFaults
    /\ faults' = faults + 1
    /\ main_pc' = "boot"
    /\ bots' = [b \in Batches |-> <<>>]
    /\ running_batch_ids' = {}
    /\ user_counter' = [u \in Users |-> 0]
    /\ seppuku_pc' = "none"
    /\ last_bot_run' = "recent"
    /\ UNCHANGED <<parse_vars, value_vars, store_vars, wiki_vars, dispatched, run_start>>

Next ==
    \/ command_bot
    \/ run_bot
    \/ \E b \in Batches, i \in 1..2 : run_take(b, i)
    \/ \E b \in Batches, i \in 1..2 : run_execute(b, i)
    \/ \E b \in Batches, i \in 1..2 : run_finished(b, i)
    \/ Crash

Spec == Init /\ [][Next]_vars

\* QuickStatementsBot::run when the query of get_next_command fails although a
\* command is INIT: prep_exec(..).ok()? and row.ok()? turn the failure into
\* None, and run takes the None branch
run_next_command_fails(b, i) ==
    /\ i \in DOMAIN bots[b]
    /\ bots[b][i].pc = "run"
    /\ IsSome(get_next_command(command_rows[b]))
    /\ faults < MaxFaults
    /\ faults' = faults + 1
    /\ set_batch_finished(b, i)
    /\ UNCHANGED <<parse_vars, value_vars, batch_last_item, command_rows, main_pc, wiki_vars,
                   dispatched,
                   run_start, sup_vars>>

\* run_bot when QuickStatementsBot::start fails after restart_batch: the API of
\* the batch's site is unknown (get_api_url) or cannot be reached (Api::new).
\* start returns Err before set_batch_running, and run_bot only prints it.
run_bot_start_fails ==
    /\ main_pc = "loop"
    /\ IsSome(get_next_batch)
    /\ faults < MaxFaults
    /\ faults' = faults + 1
    /\ LET b == Unwrap(get_next_batch)[1] IN
       /\ batch_status' = [batch_status EXCEPT ![b] = restart_batch_status(@)]
       /\ command_rows' = [command_rows EXCEPT ![b] = restart_batch_commands(@)]
       /\ ts_order' = IF batch_status[b] # "TEST" THEN Touch(ts_order, b) ELSE ts_order
    /\ last_bot_run' = "recent"
    /\ UNCHANGED <<parse_vars, value_vars, batch_last_item, running_batch_ids, user_counter,
                   main_pc, bots,
                   wiki_vars, dispatched, run_start, seppuku_pc>>

\* The program with a store whose queries can fail
NextFault ==
    \/ Next
    \/ run_bot_start_fails
    \/ \E b \in Batches, i \in 1..2 : run_next_command_fails(b, i)

SpecFault == Init /\ [][NextFault]_vars

\* An operator stops a batch: the front end sets batch.status to STOP, the
\* status check_batch_not_stopped looks for.  Interventions from outside share
\* the budget of the faults.
operator_stop(b) ==
    /\ batch_status[b] \in {"INIT", "RUN"}
    /\ faults < MaxFaults
    /\ faults' = faults + 1
    /\ batch_status' = [batch_status EXCEPT ![b] = "STOP"]
    /\ UNCHANGED <<parse_vars, value_vars, batch_last_item, ts_order, command_rows,
                   running_batch_ids,
                   user_counter, main_pc, bots, wiki_vars, dispatched, run_start, sup_vars>>

\* run_bot up to the return of get_next_batch: the tuple is in batch_id and
\* user_id, the UPDATE of restart_batch is a later statement on the database
run_bot_get_next_batch ==
    /\ main_pc = "loop"
    /\ IsSome(get_next_batch)
    /\ main_pc' = "start"
    /\ next_batch' = get_next_batch
    /\ UNCHANGED <<parse_vars, value_pc, claim_dv, command_dv, same, substituted, time_vars,
                   task_vars,
                   store_vars,
                   running_batch_ids, user_counter, bots, wiki_vars, dispatched, run_start,
                   faults, sup_vars>>

\* run_bot from QuickStatementsBot::new on: start and the spawn of the executor
\* for the batch get_next_batch returned
run_bot_start ==
    /\ main_pc = "start"
    /\ bot_start(Unwrap(next_batch)[1], Unwrap(next_batch)[2])
    /\ main_pc' = "loop"
    /\ next_batch' = None
    /\ UNCHANGED <<value_pc, claim_dv, command_dv, same, substituted, time_vars, task_vars>>

\* QuickStatementsBot::run, get_next_command returns None and the UPDATE of
\* set_batch_status fails: `.ok()?` returns None before deactivate_batch_run,
\* run returns Err and the executor's loop (`unwrap_or(false)`) ends
run_finished_fails(b, i) ==
    /\ i \in DOMAIN bots[b]
    /\ bots[b][i].pc = "run"
    /\ IsNone(get_next_command(command_rows[b]))
    /\ faults < MaxFaults
    /\ faults' = faults + 1
    /\ bots' = [bots EXCEPT ![b] = RemoveAt(@, i)]
    /\ UNCHANGED <<parse_vars, value_vars, store_vars, running_batch_ids, user_counter,
                   main_pc, wiki_vars, dispatched, run_start, sup_vars>>

\* The program with a store whose UPDATE of a finished batch can fail
NextFinish ==
    \/ Next
    \/ \E b \in Batches, i \in 1..2 : run_finished_fails(b, i)

SpecFinish == Init /\ [][NextFinish]_vars

\* A command list on a lexeme: the JSON of its command has "item":"L1"
LexemeProgram == << cmd_statement("add", <<"L", "1">>, Str_Q5) >>

\* The tables as submitted when the first batch is a command list on a lexeme
InitLexeme ==
    /\ InitWorker
    /\ batch_last_item \in SubmittedLastItems
    /\ ts_order \in SubmissionOrders
    /\ command_rows = [b \in Batches |->
                          IF b = MinReinitBatchId + 1 THEN SubmittedRows(LexemeProgram)
                          ELSE SubmittedRows(ProgramOf(b))]

\* The program with a batch on a lexeme among the submitted batches
SpecLexeme == InitLexeme /\ [][Next]_vars

\* Command lists with merges: the second command of the first loads Q1 and
\* posts nothing, since the statement is there
MergePrograms ==
    << <<cmd_statement("add", Str_Q1, Str_Q5), cmd_statement("add", Str_Q1, Str_Q5),
         cmd_merge(Str_Q1, Str_Q5)>>,
       <<cmd_merge(Str_Q5, Str_Q5)>>,
       <<cmd_label(Str_Q5), cmd_merge(Str_Q5, Str_Q1)>> >>

MergeProgramOf(b) == MergePrograms[((b - MinReinitBatchId - 1) % Len(MergePrograms)) + 1]

\* The tables as submitted when the batches hold merges
InitMerge ==
    /\ InitWorker
    /\ batch_last_item \in SubmittedLastItems
    /\ ts_order \in SubmissionOrders
    /\ command_rows = [b \in Batches |-> SubmittedRows(MergeProgramOf(b))]

\* The program with batches that merge entities
SpecMerge == InitMerge /\ [][Next]_vars

\* The program with an operator who can stop batches, between any two
\* statements the worker sends to the database
NextStop ==
    \/ Next
    \/ run_bot_get_next_batch
    \/ run_bot_start
    \/ \E b \in Batches : operator_stop(b)

SpecStop == Init /\ [][NextStop]_vars

\* QuickStatementsBot::run executing a command whose posted action the wiki
\* answers with the error actionthrottledtext
run_execute_throttled(b, i) ==
    /\ i \in DOMAIN bots[b]
    /\ bots[b][i].pc = "exec"
    /\ LET x == command_result(executor_context(b, i, Msg_throttled), FALSE) IN
       /\ x.sent # {}
       /\ execute_command(b, i, x)

\* Command lists with qualifiers: a statement, its qualifier, and the same
\* qualifier once more
ApiPrograms ==
    << <<cmd_statement("add", Str_Q1, Str_Q5), cmd_qualifier(Str_Q1, Str_Q5, Str_Q1),
         cmd_qualifier(Str_last_padded, Str_Q5, Str_LAST)>>,
       <<cmd_create, cmd_qualifier(Str_Q1, Str_Q5, Str_Q5)>>,
       <<cmd_statement("add", Str_Q1, Str_Q5)>> >>

ApiProgramOf(b) == ApiPrograms[((b - MinReinitBatchId - 1) % Len(ApiPrograms)) + 1]

InitApi ==
    /\ InitWorker
    /\ batch_last_item = [b \in Batches |-> None]
    /\ ts_order = [k \in 1..NumBatches |-> MinReinitBatchId + k]
    /\ command_rows = [b \in Batches |-> SubmittedRows(ApiProgramOf(b))]

\* The program run on the batches with qualifiers, with a wiki that can throttle
NextApi ==
    \/ Next
    \/ \E b \in Batches, i \in 1..2 : run_execute_throttled(b, i)

SpecApi == InitApi /\ [][NextApi]_vars

\* The polling loop is stuck in run_bot (a store or API call that does not
\* return) for more than MAX_INACTIVITY_BEFORE_SEPPUKU_SEC: last_bot_run grows old
loop_stalls ==
    /\ main_pc = "loop"
    /\ last_bot_run = "recent"
    /\ last_bot_run' = "old"
    /\ UNCHANGED <<parse_vars, value_vars, store_vars, running_batch_ids, user_counter,
                   main_pc, bots, wiki_vars,
                   dispatched, run_start, faults, seppuku_pc>>

\* seppuku, the body of the spawned task up to its sleep: the one look at
\* last_bot_run and get_next_batch; std::process::exit(0) ends the process
seppuku_check ==
    /\ main_pc = "loop"
    /\ seppuku_pc = "check"
    /\ IF last_bot_run = "old" /\ IsSome(get_next_batch)
       THEN /\ main_pc' = "exited"
            /\ seppuku_pc' = "none"
            /\ bots' = [b \in Batches |-> <<>>]
            /\ running_batch_ids' = {}
            /\ user_counter' = [u \in Users |-> 0]
       ELSE /\ seppuku_pc' = "sleep"
            /\ UNCHANGED <<main_pc, bots, running_batch_ids, user_counter>>
    /\ UNCHANGED <<parse_vars, value_vars, store_vars, wiki_vars, dispatched, run_start,
                   faults, last_bot_run>>

\* seppuku, the sleep of the spawned task; the task's body ends after it
seppuku_sleep ==
    /\ main_pc = "loop"
    /\ seppuku_pc = "sleep"
    /\ seppuku_pc' = "ended"
    /\ UNCHANGED <<parse_vars, value_vars, store_vars, running_batch_ids, user_counter,
                   main_pc, bots, wiki_vars,
                   dispatched, run_start, faults, last_bot_run>>

\* The program with its supervisor task scheduled and a polling loop that can
\* be stuck.  The runtime schedules a spawned task that can take a step.
NextSeppuku ==
    \/ Next
    \/ loop_stalls
    \/ seppuku_check
    \/ seppuku_sleep

\* The supervisor does not read the order or the last items of the batches:
\* one submission is enough
InitSeppuku ==
    /\ Init
    /\ ts_order = [k \in 1..NumBatches |-> MinReinitBatchId + k]
    /\ batch_last_item = [b \in Batches |-> None]

SpecSeppuku ==
    InitSeppuku /\ [][NextSeppuku]_vars /\ WF_vars(seppuku_check) /\ WF_vars(seppuku_sleep)

\* ============================================================== parser
\* qs_parser.rs.  A line is a sequence of characters; its columns are
\* separated by Tab.
Tab == "\t"
Quote == "\""

IsWhitespace(c) == c \in {" ", Tab}
AllIn(s, class) == \A k \in 1..Len(s) : s[k] \in class

RECURSIVE trim_whitespace_start(_)
trim_whitespace_start(s) ==
    IF Len(s) > 0 /\ IsWhitespace(Head(s)) THEN trim_whitespace_start(Tail(s)) ELSE s

RECURSIVE trim_whitespace_end(_)
trim_whitespace_end(s) ==
    IF Len(s) > 0 /\ IsWhitespace(s[Len(s)])
    THEN trim_whitespace_end(SubSeq(s, 1, Len(s) - 1))
    ELSE s

\* str::trim: leading and trailing whitespace goes, tabs included
str_trim(s) == trim_whitespace_end(trim_whitespace_start(s))

\* str::replace("||", "\t")
RECURSIVE replace_bars(_)
replace_bars(s) ==
    IF Len(s) = 0 THEN s
    ELSE IF Len(s) >= 2 /\ s[1] = "|" /\ s[2] = "|"
    THEN <<Tab>> \o replace_bars(SubSeq(s, 3, Len(s)))
    ELSE <<s[1]>> \o replace_bars(Tail(s))

\* str::split('\t'): the empty string has one (empty) part
RECURSIVE split_tab(_)
split_tab(s) ==
    IF \E k \in 1..Len(s) : s[k] = Tab
    THEN LET k == CHOOSE i \in 1..Len(s) : s[i] = Tab /\ \A j \in 1..(i - 1) : s[j] # Tab
         IN  <<SubSeq(s, 1, k - 1)>> \o split_tab(SubSeq(s, k + 1, Len(s)))
    ELSE <<s>>

RECURSIVE strip_spaces_start(_)
strip_spaces_start(s) ==
    IF Len(s) > 0 /\ Head(s) = " " THEN strip_spaces_start(Tail(s)) ELSE s

\* the columns joined into a line
RECURSIVE join_tab(_)
join_tab(cols) ==
    IF Len(cols) = 0 THEN <<>>
    ELSE IF Len(cols) = 1 THEN cols[1]
    ELSE cols[1] \o <<Tab>> \o join_tab(Tail(cols))

\* QuickStatementsParser::parse_comment, RE_COMMENT ^(.*)/\*\s*(.*?)\s*\*/(.*)$:
\* the last "/*" that has a "*/" after it, up to the first such "*/"
parse_comment(s) ==
    LET opens == {i \in 1..(Len(s) - 3) :
                     /\ s[i] = "/" /\ s[i + 1] = "*"
                     /\ \E j \in (i + 2)..(Len(s) - 1) : s[j] = "*" /\ s[j + 1] = "/"}
    IN  IF opens = {} THEN [line |-> s, comment |-> None]
        ELSE LET i == CHOOSE a \in opens : \A b \in opens : b <= a
                 closes == {j \in (i + 2)..(Len(s) - 1) : s[j] = "*" /\ s[j + 1] = "/"}
                 j == CHOOSE a \in closes : \A b \in closes : a <= b
             IN  [line |-> SubSeq(s, 1, i - 1) \o SubSeq(s, j + 2, Len(s)),
                  comment |-> Some(str_trim(SubSeq(s, i + 2, j - 1)))]

\* Result<T, String>; panic: the call does not return
ResultOk(v) == [res |-> "Ok", v |-> v]
ResultErr == [res |-> "Err"]
ResultPanic == [res |-> "panic"]

\* EntityID
EntityID_Last == [kind |-> "Last"]
EntityID_Id(id, entity_type) == [kind |-> "Id", id |-> id, entity_type |-> entity_type]

\* EntityID as Display writes it
EntityID_to_string(e) == IF e.kind = "Last" THEN Str_LAST ELSE e.id

\* QuickStatementsParser::parse_item_id of Some(id), RE_ENTITY_ID ^[A-Z]\d+$;
\* the ids of the lines begin with Q (item) or P (property)
parse_item_id(orig_id) ==
    LET id == to_uppercase(str_trim(orig_id))
        is_entity_id == Len(id) >= 2 /\ id[1] \in UpperLetters /\ AllIn(Tail(id), Digits)
    IN  IF id = Str_LAST THEN ResultOk(EntityID_Last)
        ELSE IF is_entity_id /\ id[1] = "Q" THEN ResultOk(EntityID_Id(id, "item"))
        ELSE IF is_entity_id /\ id[1] = "P" THEN ResultOk(EntityID_Id(id, "property"))
        ELSE ResultErr

\* QuickStatementsParser::parse_property_id
parse_property_id(prop) ==
    LET id == parse_item_id(prop) IN
    IF id.res # "Ok" THEN ResultErr
    ELSE IF id.v.kind = "Last" THEN ResultErr
    ELSE IF id.v.entity_type # "property" THEN ResultErr
    ELSE id

\* RE_MONOLINGUAL_STRING ^([a-z-]+):"(.*)"$
monolingual_colon(s) ==
    {k \in 2..(Len(s) - 2) :
        /\ s[k] = ":" /\ s[k + 1] = Quote /\ s[Len(s)] = Quote
        /\ AllIn(SubSeq(s, 1, k - 1), LowerLetters \cup {"-"})}

\* QuickStatementsParser::parse_value, with RE_STRING ^"(.*)"$; None is <<>>.  The values of the lines
\* begin with none of @, +, - and a digit, so RE_COORDINATE, parse_quantity
\* and parse_time do not match them.
parse_value(raw) ==
    LET value == str_trim(raw) IN
    IF monolingual_colon(value) # {}
    THEN LET k == CHOOSE a \in monolingual_colon(value) : TRUE IN
         Some([type |-> "MonoLingualText", text |-> SubSeq(value, k + 2, Len(value) - 1),
               language |-> SubSeq(value, 1, k - 1)])
    ELSE IF Len(value) >= 2 /\ value[1] = Quote /\ value[Len(value)] = Quote
    THEN Some([type |-> "String", s |-> SubSeq(value, 2, Len(value) - 1)])
    ELSE IF parse_item_id(value).res = "Ok"
    THEN Some([type |-> "Entity", id |-> parse_item_id(value).v])
    ELSE None

\* QuickStatementsParser::parse_command_modifier: the modifier and what is
\* left of first
parse_command_modifier(first) ==
    IF Len(first) > 0 /\ first[1] = "-"
    THEN [modifier |-> Some("Remove"), first |-> str_trim(Tail(first))]
    ELSE [modifier |-> None, first |-> first]

\* QuickStatementsParser::new_blank_with_comment
new_blank_with_comment(comment) ==
    [command |-> "Unknown", item |-> None, target_item |-> None, property |-> None,
     value |-> None, modifier |-> None, references |-> <<>>, qualifiers |-> <<>>,
     sitelink |-> None, locale_string |-> None, comment |-> comment,
     create_data |-> None]

\* QuickStatementsParser::new_create
new_create(comment) == ResultOk([new_blank_with_comment(comment) EXCEPT !.command = "Create"])

\* new_merge without the test for LAST
new_merge_with_last(i1, i2, comment) ==
    IF IsNone(i1) \/ parse_item_id(Unwrap(i1)).res # "Ok" THEN ResultErr
    ELSE IF IsNone(i2) \/ parse_item_id(Unwrap(i2)).res # "Ok" THEN ResultErr
    ELSE ResultOk([new_blank_with_comment(comment) EXCEPT
                     !.command = "Merge",
                     !.item = Some(parse_item_id(Unwrap(i1)).v),
                     !.target_item = Some(parse_item_id(Unwrap(i2)).v)])

\* QuickStatementsParser::new_merge; i1, i2: parts.get(1), parts.get(2)
new_merge(i1, i2, comment) ==
    IF IsNone(i1) \/ parse_item_id(Unwrap(i1)).res # "Ok" THEN ResultErr
    ELSE IF IsNone(i2) \/ parse_item_id(Unwrap(i2)).res # "Ok" THEN ResultErr
    ELSE LET item == parse_item_id(Unwrap(i1)).v
             target_item == parse_item_id(Unwrap(i2)).v
         IN  IF item = EntityID_Last \/ target_item = EntityID_Last THEN ResultErr
             ELSE ResultOk([new_blank_with_comment(comment) EXCEPT
                              !.command = "Merge",
                              !.item = Some(item),
                              !.target_item = Some(target_item)])

\* parse_edit_statement_property: the loop over the columns after the value,
\* whose keys match RE_REF_QUAL ^([PS])(\d+)$; ret is the command so far
RECURSIVE parse_references_and_qualifiers(_, _)
parse_references_and_qualifiers(rest, ret) ==
    IF Len(rest) = 0 THEN ResultOk(ret)
    ELSE IF ~(/\ Len(rest[1]) >= 2 /\ rest[1][1] \in {"P", "S"}
              /\ AllIn(Tail(rest[1]), Digits)) THEN ResultErr
    ELSE LET property == parse_property_id(<<"P">> \o Tail(rest[1])) IN
         IF property.res # "Ok" THEN ResultErr
         ELSE IF Len(rest) = 1 THEN ResultErr
         ELSE IF IsNone(parse_value(rest[2])) THEN ResultPanic
         ELSE LET pv == [property |-> property.v, value |-> Unwrap(parse_value(rest[2]))]
                  ret1 == IF rest[1][1] = "S"
                          THEN [ret EXCEPT !.references = Append(@, pv)]
                          ELSE [ret EXCEPT !.qualifiers = Append(@, pv)]
              IN  parse_references_and_qualifiers(SubSeq(rest, 3, Len(rest)), ret1)

\* QuickStatementsParser::parse_edit_statement_property
parse_edit_statement_property(ret, parts, second) ==
    LET property == parse_property_id(second) IN
    IF property.res # "Ok" THEN ResultErr
    ELSE IF Len(parts) < 3 THEN ResultErr
    ELSE IF IsNone(parse_value(parts[3])) THEN ResultErr
    ELSE parse_references_and_qualifiers(
             SubSeq(parts, 4, Len(parts)),
             [ret EXCEPT !.property = Some(property.v), !.value = parse_value(parts[3])])

\* QuickStatementsParser::new_edit_statement, with RE_PROPERTY ^[Pp]\d+$
new_edit_statement(parts, comment) ==
    LET m == parse_command_modifier(to_uppercase(str_trim(parts[1])))
        item == parse_item_id(m.first)
        second == str_trim(parts[2])
    IN  IF item.res # "Ok" THEN ResultErr
        ELSE IF ~(/\ Len(second) >= 2 /\ second[1] \in {"P", "p"}
                  /\ AllIn(Tail(second), Digits)) THEN ResultErr
        ELSE parse_edit_statement_property(
                 [new_blank_with_comment(comment) EXCEPT !.command = "EditStatement",
                                                         !.modifier = m.modifier,
                                                         !.item = Some(item.v)],
                 parts, to_uppercase(second))

\* RE_META ^ *([LDAS]) *([a-z_-]+) *$: <<letter, key>>, or None
meta_captures(s) ==
    LET s1 == strip_spaces_start(s) IN
    IF Len(s1) = 0 \/ s1[1] \notin {"L", "D", "A", "S"} THEN None
    ELSE LET key == trim_end(strip_spaces_start(Tail(s1))) IN
         IF Len(key) > 0 /\ AllIn(key, LowerLetters \cup {"_", "-"})
         THEN Some(<<s1[1], key>>)
         ELSE None

\* QuickStatementsParser::new_from_line, without an api (no page title is
\* looked up)
new_from_line(line) ==
    LET pc == parse_comment(line)
        comment == pc.comment
        parts == split_tab(replace_bars(str_trim(pc.line)))
    IN  IF to_uppercase(parts[1]) = Str_CREATE THEN new_create(comment)
        ELSE IF to_uppercase(parts[1]) = Str_MERGE
        THEN new_merge(IF Len(parts) >= 2 THEN Some(parts[2]) ELSE None,
                       IF Len(parts) >= 3 THEN Some(parts[3]) ELSE None, comment)
        ELSE IF Len(parts) < 3 THEN ResultErr
        ELSE IF IsSome(meta_captures(parts[2]))
        THEN LET caps == Unwrap(meta_captures(parts[2]))
                 value == parse_value(parts[3])
                 m == parse_command_modifier(parts[1])
                 item == parse_item_id(m.first)
             IN  IF IsNone(value) \/ Unwrap(value).type # "String" THEN ResultErr
                 ELSE IF item.res # "Ok" THEN ResultErr
                 ELSE LET ret == [new_blank_with_comment(comment) EXCEPT
                                     !.modifier = m.modifier, !.item = Some(item.v)]
                          ls == Some([language |-> caps[2], value |-> Unwrap(value).s])
                      IN  CASE caps[1] = "L" ->
                                 ResultOk([ret EXCEPT !.command = "SetLabel",
                                                     !.locale_string = ls])
                            [] caps[1] = "D" ->
                                 ResultOk([ret EXCEPT !.command = "SetDescription",
                                                     !.locale_string = ls])
                            [] caps[1] = "A" ->
                                 ResultOk([ret EXCEPT !.command = "SetAlias",
                                                     !.locale_string = ls])
                            [] caps[1] = "S" ->
                                 ResultOk([ret EXCEPT
                                     !.command = "SetSitelink",
                                     !.sitelink = Some([site |-> caps[2],
                                                        title |-> Unwrap(value).s])])
        ELSE new_edit_statement(parts, comment)

\* Value::to_json: the datavalue.  "entity-type" is the field entity_type.
Value_to_json(v) ==
    CASE v.type = "Entity" ->
            [type |-> "wikibase-entityid",
             value |-> [entity_type |-> "item", id |-> EntityID_to_string(v.id)]]
      [] v.type = "String" -> [type |-> "string", value |-> v.s]
      [] v.type = "MonoLingualText" ->
            [type |-> "monolingualtext", value |-> [text |-> v.text, language |-> v.language]]

\* QuickStatementsParser::get_action
get_action(c) == IF c.modifier = Some("Remove") THEN "remove" ELSE "add"

\* json with the field summary, when there is a comment
with_summary(j, comment) ==
    IF IsSome(comment) THEN j @@ [summary |-> Unwrap(comment)] ELSE j

\* to_json: the qualifier command of the statement base
qualifier_json(base, qual) ==
    [base EXCEPT !.what = "qualifier"] @@
        [qualifier |-> [prop |-> qual.property.id, value |-> Value_to_json(qual.value)]]

\* a sources command that holds the first reference only
sources_json_first(base, references) ==
    [base EXCEPT !.what = "sources"] @@
        [sources |-> <<[prop |-> references[1].property.id,
                        value |-> Value_to_json(references[1].value)]>>]

\* to_json: the sources command of the statement base
sources_json(base, references) ==
    [base EXCEPT !.what = "sources"] @@
        [sources |-> [k \in 1..Len(references) |->
                         [prop |-> references[k].property.id,
                          value |-> Value_to_json(references[k].value)]]]

\* to_json of a SetLabel, SetDescription, SetAlias command
locale_string_json(c, what) ==
    IF IsSome(c.item) /\ Unwrap(c.item).kind = "Id" /\ IsSome(c.locale_string)
    THEN ResultOk(<<[action |-> get_action(c), item |-> Unwrap(c.item).id,
                     language |-> Unwrap(c.locale_string).language,
                     value |-> Unwrap(c.locale_string).value, what |-> what]>>)
    ELSE ResultErr

\* QuickStatementsParser::to_json: the command JSONs of one command
to_json(c) ==
    CASE c.command = "EditStatement" ->
            IF IsNone(c.item) \/ IsNone(c.property) \/ IsNone(c.value) THEN ResultErr
            ELSE LET base == with_summary(
                                 [action |-> get_action(c), what |-> "statement",
                                  item |-> EntityID_to_string(Unwrap(c.item)),
                                  property |-> Unwrap(c.property).id,
                                  datavalue |-> Value_to_json(Unwrap(c.value))],
                                 c.comment)
                 IN  IF c.modifier = Some("Remove") THEN ResultOk(<<base>>)
                     ELSE ResultOk(
                              <<base>>
                              \o [k \in 1..Len(c.qualifiers) |->
                                     qualifier_json(base, c.qualifiers[k])]
                              \o (IF Len(c.references) > 0
                                  THEN <<sources_json(base, c.references)>>
                                  ELSE <<>>))
      [] c.command = "Create" ->
            ResultOk(<<IF IsSome(c.create_data)
                       THEN [action |-> "create", type |-> "item",
                             data |-> Unwrap(c.create_data)]
                       ELSE [action |-> "create", type |-> "item"]>>)
      [] c.command = "Merge" ->
            IF /\ IsSome(c.item) /\ Unwrap(c.item).kind = "Id"
               /\ IsSome(c.target_item) /\ Unwrap(c.target_item).kind = "Id"
            THEN LET item2 == Unwrap(c.item)
                     item1 == Unwrap(c.target_item)
                 IN  ResultOk(<<[action |-> "merge", item1 |-> item1.id,
                                 item2 |-> item2.id, type |-> item1.entity_type]>>)
            ELSE ResultErr
      [] c.command = "SetLabel" -> locale_string_json(c, "label")
      [] c.command = "SetDescription" -> locale_string_json(c, "description")
      [] c.command = "SetAlias" -> locale_string_json(c, "alias")
      [] c.command = "SetSitelink" ->
            IF IsSome(c.item) /\ Unwrap(c.item).kind = "Id" /\ IsSome(c.sitelink)
            THEN ResultOk(<<[action |-> get_action(c), item |-> Unwrap(c.item).id,
                             site |-> Unwrap(c.sitelink).site,
                             value |-> Unwrap(c.sitelink).title, what |-> "sitelink"]>>)
            ELSE ResultErr
      [] OTHER -> ResultErr

\* the JSON object {}: create data none of whose members is set.  Create data
\* is a record of its five members; a member the JSON lacks is empty here.
EmptyObject ==
    [labels |-> {}, descriptions |-> {}, aliases |-> <<>>, sitelinks |-> {}, claims |-> <<>>]

\* serde_json equality of two snaks (datavalue, snaktype, property)
same_snak(a, b) ==
    /\ a.property = b.property
    /\ a.snaktype = b.snaktype
    /\ a.datavalue.type = b.datavalue.type
    /\ a.datavalue.value = b.datavalue.value

\* QuickStatementsParser::mainsnak
mainsnak(c) ==
    IF to_json(c).res # "Ok" THEN None
    ELSE Some([datavalue |-> to_json(c).v[1].datavalue, snaktype |-> "value",
               property |-> Unwrap(c.property).id])

\* QuickStatementsParser::compress_add_references_and_qualifiers; the snaks
\* of a reference are kept in the order of the command
compress_add_references_and_qualifiers(statement, merge_command) ==
    LET quals == [k \in 1..Len(merge_command.qualifiers) |->
                     [datavalue |-> Value_to_json(merge_command.qualifiers[k].value),
                      property |-> merge_command.qualifiers[k].property.id,
                      snaktype |-> "value"]]
        r == [snaks |-> [k \in 1..Len(merge_command.references) |->
                            [datavalue |-> Value_to_json(merge_command.references[k].value),
                             property |-> merge_command.references[k].property.id,
                             snaktype |-> "value"]]]
    IN  [statement EXCEPT
            !.qualifiers = @ \o quals,
            !.references = IF Len(merge_command.references) > 0 THEN Append(@, r) ELSE @]

\* QuickStatementsParser::compress_edit_statement
compress_edit_statement(cd, merge_command) ==
    IF to_json(merge_command).res # "Ok" THEN None
    ELSE IF IsNone(mainsnak(merge_command)) THEN None
    ELSE LET statement == [mainsnak |-> Unwrap(mainsnak(merge_command)), rank |-> "normal",
                           type |-> "statement", qualifiers |-> <<>>, references |-> <<>>]
             found == \E k \in 1..Len(cd.claims) :
                          same_snak(cd.claims[k].mainsnak, statement.mainsnak)
         IN  IF found
             THEN Some([cd EXCEPT !.claims =
                           [k \in 1..Len(cd.claims) |->
                               IF same_snak(cd.claims[k].mainsnak, statement.mainsnak)
                               THEN compress_add_references_and_qualifiers(cd.claims[k],
                                                                           merge_command)
                               ELSE cd.claims[k]]])
             ELSE Some([cd EXCEPT !.claims =
                           Append(@, compress_add_references_and_qualifiers(statement,
                                                                            merge_command))])

\* a compress_command_pair that merges statements only
compress_statement_pair(create_command, merge_command) ==
    LET cd == IF IsSome(create_command.create_data) THEN Unwrap(create_command.create_data)
              ELSE EmptyObject
    IN  IF merge_command.command = "EditStatement"
        THEN compress_edit_statement(cd, merge_command)
        ELSE None

\* QuickStatementsParser::compress_command_pair
compress_command_pair(create_command, merge_command) ==
    LET cd == IF IsSome(create_command.create_data) THEN Unwrap(create_command.create_data)
              ELSE EmptyObject
        ls == merge_command.locale_string
        sl == merge_command.sitelink
    IN  CASE merge_command.command = "EditStatement" ->
                compress_edit_statement(cd, merge_command)
          [] merge_command.command = "SetLabel" ->
                IF IsNone(ls) THEN None
                ELSE Some([cd EXCEPT !.labels =
                              {l \in @ : l.language # Unwrap(ls).language} \cup {Unwrap(ls)}])
          [] merge_command.command = "SetDescription" ->
                IF IsNone(ls) THEN None
                ELSE Some([cd EXCEPT !.descriptions =
                              {l \in @ : l.language # Unwrap(ls).language} \cup {Unwrap(ls)}])
          [] merge_command.command = "SetAlias" ->
                IF IsNone(ls) THEN None
                ELSE Some([cd EXCEPT !.aliases = Append(@, Unwrap(ls))])
          [] merge_command.command = "SetSitelink" ->
                IF IsNone(sl) THEN None
                ELSE Some([cd EXCEPT !.sitelinks =
                              {s \in @ : s.site # Unwrap(sl).site} \cup {Unwrap(sl)}])
          [] OTHER -> None

\* the loop of compress from the command at position id_to_merge (counted
\* from 1)
RECURSIVE compress_from(_, _)
compress_from(cs, id_to_merge) ==
    IF id_to_merge > Len(cs) THEN cs
    ELSE IF \/ IsNone(cs[id_to_merge].item)
            \/ Unwrap(cs[id_to_merge].item).kind # "Last"
            \/ get_action(cs[id_to_merge]) # "add"
    THEN compress_from(cs, id_to_merge + 1)
    ELSE IF cs[id_to_merge - 1].command # "Create" THEN compress_from(cs, id_to_merge + 1)
    ELSE LET create_data == compress_command_pair(cs[id_to_merge - 1], cs[id_to_merge]) IN
         IF IsSome(create_data)
         THEN compress_from(
                  [k \in 1..(Len(cs) - 1) |->
                      IF k = id_to_merge - 1 THEN [cs[k] EXCEPT !.create_data = create_data]
                      ELSE IF k < id_to_merge THEN cs[k]
                      ELSE cs[k + 1]],
                  id_to_merge)
         ELSE compress_from(cs, id_to_merge + 1)

\* a compress that also drops the commands on LAST it could not fold
compress_drop_last(cs) ==
    SelectSeq(compress_from(cs, 2),
              LAMBDA c : ~(IsSome(c.item) /\ Unwrap(c.item).kind = "Last"))

\* QuickStatementsParser::compress
compress(cs) == compress_from(cs, 2)

\* ===================================================== command compiler
\* qs_command.rs.  A command JSON is a record; json[f].as_str() is None when
\* the record has no field f.
Has(j, f) == f \in DOMAIN j

\* serde_json::to_string of a JSON value: the text, from which the kind of the
\* value (string, object, array) and the value are read back
serde_json_to_string(kind, v) == <<kind, v>>

\* the JSON kind of the value of a datavalue Value::to_json wrote
json_kind(dv) == IF dv.type = "string" THEN "string" ELSE "object"

\* QuickStatementsCommand::already_done
already_done == ResultOk([already_done |-> 1])

\* str::replace(" ", "_")
replace_spaces(s) == [k \in 1..Len(s) |-> IF s[k] = " " THEN "_" ELSE s[k]]

\* the number of "0" at the start of s
RECURSIVE leading_zeros(_)
leading_zeros(s) ==
    IF Len(s) > 0 /\ s[1] = "0" THEN 1 + leading_zeros(Tail(s)) ELSE 0

\* RE_TIME.replace_all(t, "$a$b") with the zeros left in place
RE_TIME_keep_zeros(t) == t

\* is_same_datavalue: RE_TIME.replace_all(t, "$a$b") with RE_TIME
\* ^(?P<a>[+-]{0,1})0*(?P<b>.+)$: a is the sign if one is there and something
\* follows it, 0* takes every zero but the last character of t, b is the rest
RE_TIME_replace_all(t) ==
    IF Len(t) = 0 THEN t
    ELSE LET a == IF t[1] \in {"+", "-"} /\ Len(t) > 1 THEN <<t[1]>> ELSE <<>>
             rest == SubSeq(t, Len(a) + 1, Len(t))
             zeros == IF leading_zeros(rest) = Len(rest) THEN Len(rest) - 1
                      ELSE leading_zeros(rest)
         IN  a \o SubSeq(rest, zeros + 1, Len(rest))

\* QuickStatementsCommand::is_same_datavalue for Entity, StringValue,
\* MonoLingual and Time values; dv1 is the datavalue of a claim, dv2 the
\* command's
is_same_datavalue(dv1, dv2) ==
    IF ~Has(dv2, "type") THEN None
    ELSE IF dv1.type # dv2.type THEN Some(FALSE)
    ELSE CASE dv1.type = "wikibase-entityid" -> Some(dv1.value.id = dv2.value.id)
           [] dv1.type = "string" -> Some(dv1.value = dv2.value)
           [] dv1.type = "monolingualtext" ->
                 Some(dv1.value.language = dv2.value.language
                      /\ dv1.value.text = dv2.value.text)
           [] dv1.type = "time" ->
                 IF ~Has(dv2.value, "time") \/ ~Has(dv2.value, "calendarmodel") THEN None
                 ELSE Some(/\ dv1.value.calendarmodel = dv2.value.calendarmodel
                           /\ RE_TIME_replace_all(dv1.value.time)
                                  = RE_TIME_replace_all(dv2.value.time))

\* get_statement_id: the claims of item the loop returns on
matching_claims(json, item) ==
    {k \in 1..Len(item.claims) :
        /\ item.claims[k].property = json.property
        /\ IsSome(item.claims[k].datavalue)
        /\ is_same_datavalue(Unwrap(item.claims[k].datavalue), json.datavalue) = Some(TRUE)}

\* get_statement_id matching on the property alone
command_get_statement_id_by_property(json, item) ==
    IF ~Has(json, "property") THEN ResultErr
    ELSE IF \E k \in 1..Len(item.claims) : item.claims[k].property = json.property
    THEN LET k == CHOOSE a \in 1..Len(item.claims) : item.claims[a].property = json.property
         IN  ResultOk(item.claims[k].id)
    ELSE ResultOk(None)

\* QuickStatementsCommand::get_statement_id: Ok(Some(id)) of the first claim
\* with the command's property and the same datavalue, else Ok(None)
command_get_statement_id(json, item) ==
    IF ~Has(json, "property") THEN ResultErr
    ELSE IF ~Has(json, "datavalue") THEN ResultOk(None)
    ELSE IF matching_claims(json, item) = {} THEN ResultOk(None)
    ELSE LET k == CHOOSE a \in matching_claims(json, item) :
                      \A b \in matching_claims(json, item) : a <= b
         IN  IF IsNone(item.claims[k].id) THEN ResultErr
             ELSE ResultOk(item.claims[k].id)

\* QuickStatementsCommand::get_snak_type_for_datavalue; dv has a value
get_snak_type_for_datavalue(dv) ==
    IF dv.type # "string" THEN "value"
    ELSE IF dv.value = <<"n", "o", "v", "a", "l", "u", "e">> THEN "novalue"
    ELSE IF dv.value = <<"s", "o", "m", "e", "v", "a", "l", "u", "e">> THEN "somevalue"
    ELSE "value"

\* QuickStatementsCommand::check_prop, RE_PROP ^P\d+$
check_prop(s) == Len(s) >= 2 /\ s[1] = "P" /\ AllIn(Tail(s), Digits)

\* QuickStatementsCommand::action_set_sitelink
action_set_sitelink(json, item) ==
    IF ~Has(json, "site") \/ ~Has(json, "value") THEN ResultErr
    ELSE IF \E sl \in item.sitelinks :
                sl.site = json.site /\ replace_spaces(sl.title) = replace_spaces(json.value)
    THEN already_done
    ELSE ResultOk([action |-> "wbsetsitelink", id |-> item.id, linksite |-> json.site,
                   linktitle |-> json.value])

\* action_remove_sitelink without json["value"] = tmp: the command's JSON
\* after it
remove_sitelink_leaves_blank(json) ==
    IF Has(json, "value") THEN [json EXCEPT !.value = <<>>] ELSE json @@ [value |-> <<>>]

\* action_remove_sitelink: the command's JSON after it: tmp is
\* json["value"], "" is written, and tmp is written back
remove_sitelink_leaves(json) ==
    IF Has(json, "value")
    THEN LET tmp == json.value IN [[json EXCEPT !.value = <<>>] EXCEPT !.value = tmp]
    ELSE json @@ [value |-> "null"]

\* QuickStatementsCommand::action_remove_sitelink
action_remove_sitelink(json, item) ==
    action_set_sitelink(IF Has(json, "value") THEN [json EXCEPT !.value = <<>>]
                        ELSE json @@ [value |-> <<>>], item)

\* QuickStatementsCommand::action_add_statement
action_add_statement(json, item) ==
    LET statement_id == command_get_statement_id(json, item) IN
    IF statement_id.res # "Ok" THEN ResultErr
    ELSE IF IsSome(statement_id.v) THEN already_done
    ELSE IF ~Has(json, "property") THEN ResultErr
    ELSE IF ~Has(json, "datavalue") THEN ResultErr
    ELSE ResultOk([action |-> "wbcreateclaim", entity |-> item.id,
                   snaktype |-> get_snak_type_for_datavalue(json.datavalue),
                   property |-> json.property,
                   value |-> serde_json_to_string(json_kind(json.datavalue),
                                                  json.datavalue.value)])

\* QuickStatementsCommand::action_set_label
action_set_label(json, item) ==
    IF ~Has(json, "language") \/ ~Has(json, "value") THEN ResultErr
    ELSE IF \E l \in item.labels : l.language = json.language /\ l.value = json.value
    THEN already_done
    ELSE ResultOk([action |-> "wbsetlabel", id |-> item.id, language |-> json.language,
                   value |-> json.value])

\* QuickStatementsCommand::action_set_description
action_set_description(json, item) ==
    IF ~Has(json, "language") \/ ~Has(json, "value") THEN ResultErr
    ELSE IF \E l \in item.descriptions : l.language = json.language /\ l.value = json.value
    THEN already_done
    ELSE ResultOk([action |-> "wbsetdescription", id |-> item.id,
                   language |-> json.language, value |-> json.value])

\* QuickStatementsCommand::action_add_alias
action_add_alias(json, item) ==
    IF ~Has(json, "language") \/ ~Has(json, "value") THEN ResultErr
    ELSE ResultOk([action |-> "wbsetaliases", id |-> item.id, language |-> json.language,
                   add |-> json.value])

\* QuickStatementsCommand::action_add_qualifier
action_add_qualifier(json, item) ==
    LET statement_id == command_get_statement_id(json, item) IN
    IF statement_id.res # "Ok" THEN ResultErr
    ELSE IF IsNone(statement_id.v) THEN ResultErr
    ELSE IF ~Has(json, "qualifier") THEN ResultErr
    ELSE IF ~check_prop(json.qualifier.prop) THEN ResultErr
    ELSE ResultOk([action |-> "wbsetqualifier", claim |-> Unwrap(statement_id.v),
                   property |-> json.qualifier.prop,
                   value |-> serde_json_to_string(json_kind(json.qualifier.value),
                                                  json.qualifier.value.value),
                   snaktype |-> get_snak_type_for_datavalue(json.qualifier.value)])

\* action_add_sources: the snak of one source
source_snak(source) ==
    IF get_snak_type_for_datavalue(source.value) = "value"
    THEN [property |-> source.prop, snaktype |-> "value", datavalue |-> source.value]
    ELSE [property |-> source.prop,
          snaktype |-> get_snak_type_for_datavalue(source.value)]

\* QuickStatementsCommand::action_add_sources
action_add_sources(json, item) ==
    LET statement_id == command_get_statement_id(json, item) IN
    IF statement_id.res # "Ok" THEN ResultErr
    ELSE IF IsNone(statement_id.v) THEN ResultErr
    ELSE IF ~Has(json, "sources") THEN ResultErr
    ELSE IF \E k \in 1..Len(json.sources) : ~check_prop(json.sources[k].prop) THEN ResultErr
    ELSE ResultOk([action |-> "wbsetreference", statement |-> Unwrap(statement_id.v),
                   snaks |-> serde_json_to_string("array",
                                 [k \in 1..Len(json.sources) |-> source_snak(json.sources[k])])])

\* QuickStatementsCommand::action_remove_statement
action_remove_statement(statement_id) ==
    ResultOk([action |-> "wbremoveclaims", claim |-> statement_id])

\* QuickStatementsCommand::action_create_entity
action_create_entity(json) ==
    IF ~Has(json, "type") THEN ResultErr
    ELSE ResultOk([action |-> "wbeditentity", new |-> json.type,
                   data |-> serde_json_to_string("object",
                                                 IF Has(json, "data") THEN json.data
                                                 ELSE EmptyObject)])

\* action_merge_entities with the two ids the other way round
action_merge_entities_swapped(json) ==
    IF ~Has(json, "item1") \/ ~Has(json, "item2") THEN ResultErr
    ELSE ResultOk([action |-> "wbmergeitems", fromid |-> json.item2, toid |-> json.item1,
                   ignoreconflicts |-> "description"])

\* QuickStatementsCommand::action_merge_entities
action_merge_entities(json) ==
    IF ~Has(json, "item1") \/ ~Has(json, "item2") THEN ResultErr
    ELSE ResultOk([action |-> "wbmergeitems", fromid |-> json.item1, toid |-> json.item2,
                   ignoreconflicts |-> "description"])

\* QuickStatementsCommand::add_to_entity; item is Some
command_add_to_entity(json, item) ==
    IF ~Has(json, "what") THEN ResultErr
    ELSE CASE json.what = "label" -> action_set_label(json, item)
           [] json.what = "alias" -> action_add_alias(json, item)
           [] json.what = "description" -> action_set_description(json, item)
           [] json.what = "sitelink" -> action_set_sitelink(json, item)
           [] json.what = "statement" -> action_add_statement(json, item)
           [] json.what = "qualifier" -> action_add_qualifier(json, item)
           [] json.what = "sources" -> action_add_sources(json, item)
           [] OTHER -> ResultErr

\* QuickStatementsCommand::remove_from_entity; item is Some
command_remove_from_entity(json, item) ==
    IF ~Has(json, "what") THEN ResultErr
    ELSE CASE json.what = "statement" ->
                 LET statement_id == command_get_statement_id(json, item) IN
                 IF statement_id.res # "Ok" THEN ResultErr
                 ELSE IF IsNone(statement_id.v) THEN ResultErr
                 ELSE action_remove_statement(Unwrap(statement_id.v))
           [] json.what = "sitelink" -> action_remove_sitelink(json, item)
           [] OTHER -> ResultErr

\* QuickStatementsCommand::action_to_execute; item is the Option main_item,
\* and expect() on None does not return
action_to_execute(json, item) ==
    IF ~Has(json, "action") THEN ResultErr
    ELSE CASE json.action = "add" ->
                 IF IsNone(item) THEN ResultPanic
                 ELSE command_add_to_entity(json, Unwrap(item))
           [] json.action = "create" -> action_create_entity(json)
           [] json.action = "merge" -> action_merge_entities(json)
           [] json.action = "remove" ->
                 IF IsNone(item) THEN ResultPanic
                 ELSE command_remove_from_entity(json, Unwrap(item))
           [] OTHER -> ResultErr

\* wikibase::Entity (an item): its id, terms, sitelinks and claims
new_item(id, labels, descriptions, aliases, sitelinks, claims) ==
    [id |-> id, labels |-> labels, descriptions |-> descriptions, aliases |-> aliases,
     sitelinks |-> sitelinks, claims |-> claims]

\* ===================================================== executor, whole JSON
\* qs_bot.rs on the command JSON the parser writes.  The wiki is the set of
\* its entities; a claim is [id, property, datavalue, qualifiers, references].

\* the wiki takes an entity id ^[A-Z]\d+$ as a value, and nothing else
wiki_valid_datavalue(dv) ==
    dv.type = "wikibase-entityid" =>
        /\ Len(dv.value.id) >= 2
        /\ dv.value.id[1] \in UpperLetters
        /\ AllIn(Tail(dv.value.id), Digits)

\* the datavalue the wiki reads from the text of a value
wiki_datavalue(text) ==
    IF text[1] = "string" THEN [type |-> "string", value |-> text[2]]
    ELSE IF Has(text[2], "id") THEN [type |-> "wikibase-entityid", value |-> text[2]]
    ELSE [type |-> "monolingualtext", value |-> text[2]]

\* the snak the wiki keeps: property and datavalue
wiki_snak(snak) == [property |-> snak.property, datavalue |-> snak.datavalue]

\* the wiki takes the data of wbeditentity when every value in it is valid
wiki_valid_data(data) ==
    \A k \in 1..Len(data.claims) :
        /\ wiki_valid_datavalue(data.claims[k].mainsnak.datavalue)
        /\ \A j \in 1..Len(data.claims[k].qualifiers) :
               wiki_valid_datavalue(data.claims[k].qualifiers[j].datavalue)
        /\ \A j \in 1..Len(data.claims[k].references) :
               \A i \in 1..Len(data.claims[k].references[j].snaks) :
                   wiki_valid_datavalue(data.claims[k].references[j].snaks[i].datavalue)

\* the entity wbeditentity makes of the data
wiki_entity_from_data(q, data) ==
    new_item(q, data.labels, data.descriptions,
             {data.aliases[k] : k \in 1..Len(data.aliases)},
             data.sitelinks,
             [k \in 1..Len(data.claims) |->
                 [id |-> Some(<<q, k>>),
                  property |-> data.claims[k].mainsnak.property,
                  datavalue |-> Some(data.claims[k].mainsnak.datavalue),
                  qualifiers |-> [j \in 1..Len(data.claims[k].qualifiers) |->
                                     wiki_snak(data.claims[k].qualifiers[j])],
                  references |-> [j \in 1..Len(data.claims[k].references) |->
                                     [i \in 1..Len(data.claims[k].references[j].snaks) |->
                                         wiki_snak(data.claims[k].references[j].snaks[i])]]]])

wiki_has_entity(wiki, q) == \E e \in wiki : e.id = q

wiki_has_claim(wiki, sid) ==
    \E e \in wiki : \E k \in 1..Len(e.claims) : e.claims[k].id = Some(sid)

\* qualifiers and references added to the claim sid
wiki_extend_claim(wiki, sid, quals, refs) ==
    { [e EXCEPT !.claims =
          [k \in 1..Len(e.claims) |->
              IF e.claims[k].id = Some(sid)
              THEN [e.claims[k] EXCEPT !.qualifiers = @ \o quals, !.references = @ \o refs]
              ELSE e.claims[k]]] : e \in wiki }

wiki_failure(wiki) == [success |-> FALSE, wiki |-> wiki, entity |-> None]
wiki_success(wiki, entity) == [success |-> TRUE, wiki |-> wiki, entity |-> entity]

\* the wiki's answer to a request, and the wiki after it
wiki_edit(wiki, act) ==
    CASE act.action = "wbeditentity" ->
            LET free == SelectSeq(NewIds, LAMBDA q : ~wiki_has_entity(wiki, q)) IN
            IF Len(free) = 0 \/ ~wiki_valid_data(act.data[2]) THEN wiki_failure(wiki)
            ELSE wiki_success(wiki \cup {wiki_entity_from_data(Head(free), act.data[2])},
                              Some(Head(free)))
      [] act.action = "wbcreateclaim" ->
            IF \/ ~wiki_has_entity(wiki, act.entity)
               \/ ~wiki_valid_datavalue(wiki_datavalue(act.value))
            THEN wiki_failure(wiki)
            ELSE wiki_success(
                     { IF e.id = act.entity
                       THEN [e EXCEPT !.claims =
                                Append(@, [id |-> Some(<<e.id, Len(e.claims) + 1>>),
                                           property |-> act.property,
                                           datavalue |-> Some(wiki_datavalue(act.value)),
                                           qualifiers |-> <<>>, references |-> <<>>])]
                       ELSE e : e \in wiki },
                     None)
      [] act.action = "wbsetqualifier" ->
            IF \/ ~wiki_has_claim(wiki, act.claim)
               \/ ~wiki_valid_datavalue(wiki_datavalue(act.value))
            THEN wiki_failure(wiki)
            ELSE wiki_success(
                     wiki_extend_claim(wiki, act.claim,
                                       <<[property |-> act.property,
                                          datavalue |-> wiki_datavalue(act.value)]>>, <<>>),
                     None)
      [] act.action = "wbsetreference" ->
            IF \/ ~wiki_has_claim(wiki, act.statement)
               \/ \E k \in 1..Len(act.snaks[2]) :
                      /\ Has(act.snaks[2][k], "datavalue")
                      /\ ~wiki_valid_datavalue(act.snaks[2][k].datavalue)
            THEN wiki_failure(wiki)
            ELSE wiki_success(
                     wiki_extend_claim(wiki, act.statement, <<>>,
                                       << [k \in 1..Len(act.snaks[2]) |->
                                              wiki_snak(act.snaks[2][k])] >>),
                     None)
      [] act.action = "wbsetlabel" ->
            IF ~wiki_has_entity(wiki, act.id) THEN wiki_failure(wiki)
            ELSE wiki_success(
                     { IF e.id = act.id
                       THEN [e EXCEPT !.labels =
                                {l \in @ : l.language # act.language}
                                \cup {[language |-> act.language, value |-> act.value]}]
                       ELSE e : e \in wiki },
                     Some(act.id))
      [] act.action = "wbsetdescription" ->
            IF ~wiki_has_entity(wiki, act.id) THEN wiki_failure(wiki)
            ELSE wiki_success(
                     { IF e.id = act.id
                       THEN [e EXCEPT !.descriptions =
                                {l \in @ : l.language # act.language}
                                \cup {[language |-> act.language, value |-> act.value]}]
                       ELSE e : e \in wiki },
                     Some(act.id))
      [] act.action = "wbsetaliases" ->
            IF ~wiki_has_entity(wiki, act.id) THEN wiki_failure(wiki)
            ELSE wiki_success(
                     { IF e.id = act.id
                       THEN [e EXCEPT !.aliases =
                                @ \cup {[language |-> act.language, value |-> act.add]}]
                       ELSE e : e \in wiki },
                     Some(act.id))
      [] act.action = "wbsetsitelink" ->
            IF ~wiki_has_entity(wiki, act.id) THEN wiki_failure(wiki)
            ELSE wiki_success(
                     { IF e.id = act.id
                       THEN [e EXCEPT !.sitelinks =
                                {s \in @ : s.site # act.linksite}
                                \cup (IF Len(act.linktitle) = 0 THEN {}
                                      ELSE {[site |-> act.linksite,
                                             title |-> act.linktitle]})]
                       ELSE e : e \in wiki },
                     Some(act.id))
      [] act.action = "wbremoveclaims" ->
            IF ~wiki_has_claim(wiki, act.claim) THEN wiki_failure(wiki)
            ELSE wiki_success(
                     { [e EXCEPT !.claims = SelectSeq(@, LAMBDA c : c.id # Some(act.claim))]
                         : e \in wiki },
                     None)
      [] OTHER -> wiki_failure(wiki)  \* wbmergeitems of items the wiki does not have

\* QuickStatementsBot::new: no last entity; the wiki is the knowledge base
QuickStatementsBot_new(wiki) == [last_entity_id |-> None, wiki |-> wiki]

\* QuickStatementsBot::replace_last_item on a JSON value v
bot_replace_last_item(v, last_entity_id) ==
    IF IsNone(last_entity_id) THEN v
    ELSE IF ~Has(v, "type") THEN v
    ELSE IF v.type # "wikibase-entityid" THEN v
    ELSE IF fix_entity_id(v.value.id) = Str_LAST
    THEN [v EXCEPT !.value.id = Unwrap(last_entity_id)]
    ELSE v

\* QuickStatementsBot::insert_last_item_into_sources_and_qualifiers on the
\* whole JSON: datavalue, qualifier.value, and every member of sources
bot_insert_last_item(json, last_entity_id) ==
    LET j1 == IF Has(json, "datavalue")
              THEN [json EXCEPT !.datavalue = bot_replace_last_item(@, last_entity_id)]
              ELSE json
        j2 == IF Has(j1, "qualifier")
              THEN [j1 EXCEPT !.qualifier.value = bot_replace_last_item(@, last_entity_id)]
              ELSE j1
    IN  IF Has(j2, "sources")
        THEN [j2 EXCEPT !.sources = [k \in 1..Len(@) |->
                                        bot_replace_last_item(@[k], last_entity_id)]]
        ELSE j2

\* QuickStatementsBot::load_command_items on the whole JSON: current_entity_id
\* and the JSON with its item
bot_load_command_items(json, last_entity_id) ==
    LET cur0 == IF Has(json, "item") THEN Some(fix_entity_id(json.item)) ELSE None
        cur1 == IF cur0 = Some(Str_LAST) THEN last_entity_id ELSE cur0
    IN  [current_entity_id |-> cur1,
         json |-> IF IsSome(cur1) /\ Has(json, "item")
                  THEN [json EXCEPT !.item = Unwrap(cur1)]
                  ELSE json]

\* QuickStatementsBot::run_action and reset_entities: the request is posted,
\* and on success last_entity_id is the command's item or the entity of the
\* answer
bot_run_action(bot, json, act) ==
    LET r == wiki_edit(bot.wiki, act) IN
    IF ~r.success THEN [res |-> "Err", bot |-> bot]
    ELSE [res |-> "Ok",
          bot |-> [wiki |-> r.wiki,
                   last_entity_id |->
                       IF Has(json, "item") /\ to_uppercase(json.item) # Str_LAST
                       THEN Some(json.item)
                       ELSE IF IsSome(r.entity) THEN r.entity
                       ELSE bot.last_entity_id]]

\* a request compiled from the command is run; nothing is posted for an Err or
\* for a command that is already done
bot_run_compiled(bot, json, compiled) ==
    IF compiled.res # "Ok" THEN [res |-> "Err", bot |-> bot]
    ELSE IF Has(compiled.v, "already_done") THEN [res |-> "Ok", bot |-> bot]
    ELSE bot_run_action(bot, json, compiled.v)

\* QuickStatementsBot::add_to_entity and remove_from_entity: set_label,
\* add_statement, add_qualifier, add_sources, remove_statement... post the
\* request that action_set_label, action_add_statement... build from the
\* entity get_item_from_command loads
bot_edit_entity(bot, json0) ==
    LET loaded == bot_load_command_items(json0, bot.last_entity_id)
        json == bot_insert_last_item(loaded.json, bot.last_entity_id)
    IN  IF IsNone(loaded.current_entity_id) THEN [res |-> "Err", bot |-> bot]
        ELSE IF ~wiki_has_entity(bot.wiki, json.item) THEN [res |-> "Err", bot |-> bot]
        ELSE LET item == CHOOSE e \in bot.wiki : e.id = json.item IN
             bot_run_compiled(bot, json,
                              IF json.action = "add" THEN command_add_to_entity(json, item)
                              ELSE command_remove_from_entity(json, item))

\* QuickStatementsBot::execute_command and set_command_status: the bot after
\* the command; a DONE command leaves current_entity_id as last_entity_id
bot_execute_command(bot, json) ==
    LET current_entity_id ==
            IF json.action \in {"add", "remove"}
            THEN bot_load_command_items(json, bot.last_entity_id).current_entity_id
            ELSE None
        result ==
            CASE json.action = "create" ->
                    bot_run_compiled(bot, json, action_create_entity(json))
              [] json.action = "merge" ->
                    bot_run_compiled(bot, json, action_merge_entities(json))
              [] json.action \in {"add", "remove"} -> bot_edit_entity(bot, json)
              [] OTHER -> [res |-> "Err", bot |-> bot]
    IN  IF result.res = "Ok"
        THEN [result.bot EXCEPT !.last_entity_id = current_entity_id]
        ELSE result.bot

\* the commands of a batch, in the order of their num
RECURSIVE bot_execute_all(_, _)
bot_execute_all(bot, jsons) ==
    IF Len(jsons) = 0 THEN bot
    ELSE bot_execute_all(bot_execute_command(bot, jsons[1]), Tail(jsons))

\* command_run: line by line; it returns at a line that is not parsed and
\* stops with a panic where new_from_line or to_json().unwrap() panics
RECURSIVE command_run(_, _)
command_run(bot, ls) ==
    IF Len(ls) = 0 THEN bot
    ELSE LET c == new_from_line(ls[1]) IN
         IF c.res # "Ok" THEN bot
         ELSE IF to_json(c.v).res # "Ok" THEN bot
         ELSE command_run(bot_execute_all(bot, to_json(c.v).v), Tail(ls))

\* action_to_execute takes &mut self: the command's JSON after it, which
\* only action_remove_sitelink writes
json_after_action_to_execute(json, item) ==
    IF /\ Has(json, "action") /\ json.action = "remove" /\ IsSome(item)
       /\ Has(json, "what") /\ json.what = "sitelink"
    THEN remove_sitelink_leaves(json)
    ELSE json

\* ===================================================== command line tools
\* bin/main.rs command_parse and command_run: lines are read, parsed,
\* compressed, lowered to command JSON and compiled.

\* the columns of the lines
Str_P1 == <<"P", "1">>
Str_P2 == <<"P", "2">>
Str_S2 == <<"S", "2">>
Str_Len == <<"L", "e", "n">>
Str_Den == <<"D", "e", "n">>
Str_Aen == <<"A", "e", "n">>
Str_Senwiki == <<"S", "e", "n", "w", "i", "k", "i">>
Str_en == <<"e", "n">>
Str_enwiki == <<"e", "n", "w", "i", "k", "i">>
Str_x == <<"x">>
Str_y == <<"y">>
Str_x_quoted == <<Quote, "x", Quote>>
Str_y_quoted == <<Quote, "y", Quote>>
Str_x_english == <<"e", "n", ":", Quote, "x", Quote>>
Str_q5_lower == <<"q", "5">>
Str_minus_Q1 == <<"-", "Q", "1">>
Str_comment == <<" ", "/", "*", " ", "x", " ", "*", "/">>
Str_zz == <<"z", "z">>
Str_merge_lower == <<"m", "e", "r", "g", "e">>

\* one line each
SingleLines ==
    { <<Str_CREATE>>,
      <<Str_MERGE, Str_Q1, Str_Q5>>,
      <<Str_merge_lower, Str_q5_lower, Str_Q1>>,
      <<Str_MERGE, Str_Q1>>,
      <<Str_MERGE, Str_LAST, Str_Q1>>,
      <<Str_MERGE, Str_Q1, Str_LAST>>,
      <<Str_MERGE, Str_Q1, Str_last_padded>>,
      <<Str_MERGE, Str_zz, Str_Q1>>,
      <<Str_MERGE, Str_Q1, Str_zz>>,
      <<Str_MERGE, Str_empty, Str_Q1>>,
      <<Str_MERGE, Str_P1, Str_P2>>,
      <<Str_MERGE, Str_Q1, Str_Q5, Str_zz>>,
      <<Str_Q1, Str_Len, Str_x_quoted>>,
      <<Str_LAST, Str_Len, Str_x_quoted>>,
      <<Str_Q1, Str_Den, Str_x_quoted>>,
      <<Str_LAST, Str_Den, Str_x_quoted>>,
      <<Str_Q1, Str_Aen, Str_x_quoted>>,
      <<Str_Q1, Str_Senwiki, Str_x_quoted>>,
      <<Str_minus_Q1, Str_Len, Str_x_quoted>>,
      <<Str_minus_Q1, Str_Senwiki, Str_x_quoted>>,
      <<Str_Q1, Str_Len, Str_Q5>>,
      <<Str_Q1, Str_P1, Str_Q5>>,
      <<Str_Q1, Str_P1, Str_x_quoted>>,
      <<Str_Q1, Str_P1, Str_x_english>>,
      <<Str_Q1, Str_P1, Str_Q5, Str_P2, Str_Q1>>,
      <<Str_Q1, Str_P1, Str_Q5, Str_S2, Str_Q1>>,
      <<Str_Q1, Str_P1, Str_Q5, Str_P2, Str_Q1, Str_S2, Str_x_quoted>>,
      <<Str_Q1, Str_P1, Str_Q5, Str_S2, Str_Q1, Str_P2, Str_Q1, Str_P1, Str_x_quoted,
        Str_S2, Str_x_quoted>>,
      <<Str_minus_Q1, Str_P1, Str_Q5, Str_P2, Str_Q1, Str_S2, Str_x_quoted>>,
      <<Str_Q1, Str_P1, Str_Q5, Str_P2, Str_zz>>,
      <<Str_Q1, Str_P1, Str_Q5, Str_zz, Str_Q1>>,
      <<Str_Q1, Str_P1, Str_Q5, Str_P2>>,
      <<Str_minus_Q1, Str_P1, Str_Q5>>,
      <<Str_LAST, Str_P1, Str_Q5>>,
      <<Str_Q1, Str_P1, Str_Q5 \o Str_comment>>,
      <<Str_Q1, Str_P1, Str_zz>>,
      <<Str_Q1, Str_Q5, Str_Q5>>,
      <<Str_Q1, Str_P1>>,
      <<Str_zz>> }

\* CREATE and lines after it
CreateLists ==
    { << <<Str_CREATE>>, <<Str_LAST, Str_P1, Str_Q5>> >>,
      << <<Str_CREATE>>, <<Str_LAST, Str_P1, Str_LAST>> >>,
      << <<Str_CREATE>>, <<Str_LAST, Str_P1, Str_Q5, Str_P2, Str_LAST>> >>,
      << <<Str_CREATE>>, <<Str_LAST, Str_P1, Str_Q5, Str_S2, Str_LAST>> >>,
      << <<Str_CREATE>>, <<Str_LAST, Str_P1, Str_Q5, Str_S2, Str_Q1>> >>,
      << <<Str_CREATE>>, <<Str_LAST, Str_Len, Str_x_quoted>> >>,
      << <<Str_CREATE>>, <<Str_LAST, Str_P1, Str_Q5>>,
         <<Str_LAST, Str_P1, Str_Q5, Str_P2, Str_Q1>> >>,
      << <<Str_CREATE>>, <<Str_LAST, Str_P1, Str_Q5>>, <<Str_LAST, Str_P2, Str_Q1>> >>,
      << <<Str_CREATE>>, <<Str_LAST, Str_Aen, Str_x_quoted>>,
         <<Str_LAST, Str_Aen, Str_y_quoted>> >>,
      << <<Str_CREATE>>, <<Str_Q1, Str_P1, Str_Q5>> >>,
      << <<Str_CREATE>>, <<Str_CREATE>>, <<Str_LAST, Str_P1, Str_Q5>> >>,
      << <<Str_CREATE>>, <<Str_LAST, Str_Len, Str_x_quoted>>, <<Str_LAST, Str_P1, Str_Q5>> >>,
      << <<Str_CREATE>>, <<Str_LAST, Str_Den, Str_x_quoted>>,
         <<Str_LAST, Str_Senwiki, Str_x_quoted>> >>,
      << <<Str_CREATE>>, <<Str_LAST, Str_P1, Str_Q5>>, <<Str_Q1, Str_P1, Str_Q5>>,
         <<Str_LAST, Str_P2, Str_Q1>> >> }

\* the lines of stdin
InputLines ==
    {<<join_tab(cols)>> : cols \in SingleLines}
    \cup {[k \in 1..Len(ls) |-> join_tab(ls[k])] : ls \in CreateLists}

\* statement ids of the claims of the entities
Claim_1 == "Q1$1"
Claim_2 == "Q1$2"

entity_datavalue(id) ==
    [type |-> "wikibase-entityid", value |-> [entity_type |-> "item", id |-> id]]

\* the entity snapshots a command is compiled against
Snapshots ==
    { new_item(Str_Q1, {}, {}, {}, {}, <<>>),
      new_item(Str_Q1,
               {[language |-> Str_en, value |-> Str_x]},
               {[language |-> Str_en, value |-> Str_x]},
               {[language |-> Str_en, value |-> Str_x]},
               {[site |-> Str_enwiki, title |-> Str_x]},
               <<[id |-> Some(Claim_1), property |-> Str_P1,
                  datavalue |-> Some(entity_datavalue(Str_Q5))]>>),
      new_item(Str_Q1,
               {[language |-> Str_en, value |-> Str_y]},
               {},
               {[language |-> Str_en, value |-> Str_y]},
               {[site |-> Str_enwiki, title |-> Str_y]},
               <<[id |-> Some(Claim_1), property |-> Str_P1,
                  datavalue |-> Some(entity_datavalue(Str_Q1))],
                 [id |-> Some(Claim_2), property |-> Str_P2,
                  datavalue |-> Some(entity_datavalue(Str_Q5))]>>),
      new_item(Str_Q1, {}, {}, {}, {},
               <<[id |-> Some(Claim_1), property |-> Str_P1, datavalue |-> None],
                 [id |-> Some(Claim_2), property |-> Str_P1,
                  datavalue |-> Some([type |-> "string", value |-> Str_x])]>>) }

\* the worker is not started: the command was not bot
InitWorkerOff ==
    /\ batch_status = [b \in Batches |-> "INIT"]
    /\ batch_last_item = [b \in Batches |-> None]
    /\ ts_order = [k \in 1..NumBatches |-> MinReinitBatchId + k]
    /\ command_rows = [b \in Batches |-> <<>>]
    /\ running_batch_ids = {}
    /\ user_counter = [u \in Users |-> 0]
    /\ main_pc = "off"
    /\ bots = [b \in Batches |-> <<>>]
    /\ wiki_entities = {}
    /\ wiki_claims = {}
    /\ wiki_labels = {}
    /\ wiki_quals = {}
    /\ wire = {}
    /\ dispatched = [b \in Batches |-> <<>>]
    /\ run_start = [b \in Batches |-> 0]
    /\ faults = 0
    /\ seppuku_pc = "none"
    /\ last_bot_run = "recent"

\* a command line tool is about to read lines; the worker is not started
InitParse ==
    /\ InitWorkerOff
    /\ InitValuesOff
    /\ parse_pc = "start"
    /\ lines \in InputLines
    /\ main_item \in {Some(e) : e \in Snapshots}
    /\ commands = <<>>
    /\ compressed = <<>>
    /\ commands_json = <<>>
    /\ run_json = <<>>
    /\ actions = <<>>
    /\ kb_run = <<>>
    /\ kb_batch = <<>>

worker_vars ==
    <<batch_status, batch_last_item, ts_order, command_rows, running_batch_ids,
      user_counter, main_pc, bots, wiki_entities, wiki_claims, wiki_labels, wiki_quals,
      wire, dispatched, run_start, faults, seppuku_pc, last_bot_run>>

\* the lines command_parse and command_run keep: trimmed, and not empty
kept_lines(ls) == SelectSeq([k \in 1..Len(ls) |-> str_trim(ls[k])], LAMBDA l : Len(l) > 0)

\* the values of the Ok results
ok_values(results) ==
    LET oks == SelectSeq(results, LAMBDA r : r.res = "Ok") IN
    [k \in 1..Len(oks) |-> oks[k].v]

\* Iterator::flat_map over Results with unwrap: the concatenation, or a
\* panic with the first Err
RECURSIVE flat_map_unwrap(_)
flat_map_unwrap(results) ==
    IF Len(results) = 0 THEN ResultOk(<<>>)
    ELSE IF results[1].res # "Ok" THEN ResultPanic
    ELSE LET rest == flat_map_unwrap(Tail(results)) IN
         IF rest.res # "Ok" THEN ResultPanic ELSE ResultOk(results[1].v \o rest.v)

\* get_commands: new_from_line on every line
get_commands ==
    /\ parse_pc = "start"
    /\ LET results == [k \in 1..Len(kept_lines(lines)) |-> new_from_line(kept_lines(lines)[k])]
       IN  /\ commands' = results
           /\ parse_pc' = IF \E k \in 1..Len(results) : results[k].res = "panic"
                          THEN "panicked"
                          ELSE "parsed"
    /\ UNCHANGED <<worker_vars, value_vars, lines, main_item, compressed, commands_json, run_json,
                   actions, kb_run, kb_batch>>

\* command_parse: QuickStatementsParser::compress on the parsed commands
compress_commands ==
    /\ parse_pc = "parsed"
    /\ compressed' = compress(ok_values(commands))
    /\ parse_pc' = "compressed"
    /\ UNCHANGED <<worker_vars, value_vars, lines, main_item, commands, commands_json, run_json,
                   actions, kb_run, kb_batch>>

\* command_parse: to_json of the compressed commands, flattened; command_run:
\* to_json of the commands, line by line
commands_to_json ==
    /\ parse_pc = "compressed"
    /\ commands_json' = flat_map_unwrap([k \in 1..Len(compressed) |-> to_json(compressed[k])])
    /\ run_json' = [k \in 1..Len(ok_values(commands)) |-> to_json(ok_values(commands)[k])]
    /\ parse_pc' = "lowered"
    /\ UNCHANGED <<worker_vars, value_vars, lines, main_item, commands, compressed, actions, kb_run,
                   kb_batch>>

\* the commands compiled against the entity: action_to_execute on every JSON,
\* and the JSON it leaves in the command
compile_commands ==
    /\ parse_pc = "lowered"
    /\ actions' = [k \in 1..Len(run_json) |->
                      IF run_json[k].res = "Ok"
                      THEN [i \in 1..Len(run_json[k].v) |->
                               action_to_execute(run_json[k].v[i], main_item)]
                      ELSE <<>>]
    /\ run_json' = [k \in 1..Len(run_json) |->
                       IF run_json[k].res = "Ok"
                       THEN ResultOk([i \in 1..Len(run_json[k].v) |->
                                        json_after_action_to_execute(run_json[k].v[i],
                                                                     main_item)])
                       ELSE run_json[k]]
    /\ parse_pc' = "compiled"
    /\ UNCHANGED <<worker_vars, value_vars, lines, main_item, commands, compressed,
                   commands_json, kb_run, kb_batch>>

\* the lines run on an empty wiki by command_run, and the commands
\* command_parse printed run as the rows of one batch on an empty wiki
execute_commands ==
    /\ parse_pc = "compiled"
    /\ kb_run' = command_run(QuickStatementsBot_new({}), kept_lines(lines))
    /\ kb_batch' = IF commands_json.res = "Ok"
                   THEN bot_execute_all(QuickStatementsBot_new({}), commands_json.v)
                   ELSE QuickStatementsBot_new({})
    /\ parse_pc' = "executed"
    /\ UNCHANGED <<worker_vars, value_vars, lines, main_item, commands, compressed, commands_json,
                   run_json, actions>>

\* add_to_entity and remove_from_entity of an executor whose last_entity_id
\* is last: the JSON of every command after load_command_items and
\* insert_last_item_into_sources_and_qualifiers
insert_last_items ==
    /\ parse_pc = "executed"
    /\ \E last \in {None, Some(Str_Q5)} :
           substituted' =
               [last_entity_id |-> last,
                json |-> [k \in 1..Len(run_json) |->
                             IF run_json[k].res = "Ok"
                             THEN [i \in 1..Len(run_json[k].v) |->
                                      bot_insert_last_item(
                                          bot_load_command_items(run_json[k].v[i], last).json,
                                          last)]
                             ELSE <<>>]]
    /\ parse_pc' = "substituted"
    /\ UNCHANGED <<worker_vars, parse_vars_but_pc, value_pc, claim_dv, command_dv, same,
                   next_batch, time_vars, task_vars>>

NextParse ==
    \/ get_commands
    \/ compress_commands
    \/ commands_to_json
    \/ compile_commands
    \/ execute_commands
    \/ insert_last_items

SpecParse == InitParse /\ [][NextParse]_vars

\* ------------------------------------------------ comparison of datavalues
\* A time datavalue is compared with the time datavalue of a command.
Calendars == {"http://www.wikidata.org/entity/Q1985727",
              "http://www.wikidata.org/entity/Q1985786"}

Str_jan17 == <<"-", "0", "1", "-", "1", "7", "T", "0", "0", ":", "0", "0", ":", "0", "0", "Z">>
Str_jan18 == <<"-", "0", "1", "-", "1", "8", "T", "0", "0", ":", "0", "0", ":", "0", "0", "Z">>

\* sign, leading zeros, year, and the rest of a time string
TimeStrings ==
    { sign \o zeros \o year \o rest :
        sign \in {<<>>, <<"+">>, <<"-">>},
        zeros \in {<<>>, <<"0">>, <<"0", "0">>},
        year \in {<<"1">>, <<"1", "0">>, <<"0">>},
        rest \in {Str_jan17, Str_jan18} }

\* TimeValue: the fields of a time datavalue
time_datavalue(time, calendarmodel, precision) ==
    [type |-> "time",
     value |-> [after |-> 0, before |-> 0, calendarmodel |-> calendarmodel,
                precision |-> precision, time |-> time, timezone |-> 0]]

TimeDatavalues ==
    {time_datavalue(t, c, p) : t \in TimeStrings, c \in Calendars, p \in {9, 11}}

\* the time datavalue of a claim and the time datavalue of a command
InitSame ==
    /\ InitWorkerOff
    /\ parse_pc = "off"
    /\ lines = <<>>
    /\ main_item = <<>>
    /\ commands = <<>>
    /\ compressed = <<>>
    /\ commands_json = <<>>
    /\ run_json = <<>>
    /\ actions = <<>>
    /\ kb_run = <<>>
    /\ kb_batch = <<>>
    /\ value_pc = "start"
    /\ claim_dv \in TimeDatavalues
    /\ command_dv \in TimeDatavalues
    /\ same = <<>>
    /\ substituted = <<>>
    /\ next_batch = <<>>
    /\ time_pc = "off"
    /\ time_text = <<>>
    /\ time_value = <<>>
    /\ task_pc = [b \in Batches |-> "none"]
    /\ task_cnt = [b \in Batches |-> 0]

\* get_statement_id: is_same_datavalue of the claim's and the command's
\* datavalue
compare_datavalues ==
    /\ value_pc = "start"
    /\ same' = is_same_datavalue(claim_dv, command_dv)
    /\ value_pc' = "done"
    /\ UNCHANGED <<worker_vars, parse_vars, claim_dv, command_dv, substituted, next_batch,
                   time_vars, task_vars>>

NextSame == compare_datavalues

SpecSame == InitSame /\ [][NextSame]_vars

\* ============================================================ parse_time
DigitSeq == <<"0", "1", "2", "3", "4", "5", "6", "7", "8", "9">>
DigitValue(c) == (CHOOSE n \in 1..10 : DigitSeq[n] = c) - 1

RECURSIVE digits_value(_)
digits_value(s) ==
    IF Len(s) = 0 THEN 0
    ELSE digits_value(SubSeq(s, 1, Len(s) - 1)) * 10 + DigitValue(s[Len(s)])

\* str::parse::<u64>: an optional "+", then digits; None for anything else and
\* for a number that does not fit
parse_u64(s) ==
    LET d == IF Len(s) > 0 /\ s[1] = "+" THEN Tail(s) ELSE s IN
    IF Len(d) = 0 \/ ~AllIn(d, Digits) THEN None
    ELSE IF Len(d) > 19 THEN None
    ELSE Some(digits_value(d))

RECURSIVE u64_to_string(_)
u64_to_string(n) ==
    IF n < 10 THEN <<DigitSeq[n + 1]>>
    ELSE u64_to_string(n \div 10) \o <<DigitSeq[(n % 10) + 1]>>

\* format!("{:02}")
format_02(n) == IF n < 10 THEN <<"0">> \o u64_to_string(n) ELSE u64_to_string(n)

\* v.replace('T', "-").replace('Z', "").replace(':', "-")
RECURSIVE replace_T_Z_colon(_)
replace_T_Z_colon(v) ==
    IF Len(v) = 0 THEN v
    ELSE (CASE v[1] \in {"T", ":"} -> <<"-">>
            [] v[1] = "Z" -> <<>>
            [] OTHER -> <<v[1]>>) \o replace_T_Z_colon(Tail(v))

\* str::split('-')
RECURSIVE split_dash(_)
split_dash(s) ==
    IF \E k \in 1..Len(s) : s[k] = "-"
    THEN LET k == CHOOSE i \in 1..Len(s) : s[i] = "-" /\ \A j \in 1..(i - 1) : s[j] # "-"
         IN  <<SubSeq(s, 1, k - 1)>> \o split_dash(SubSeq(s, k + 1, Len(s)))
    ELSE <<s>>

\* parse_time, the loop under PHP_COMPATIBILITY: the zeros the year starts
\* with, as long as the year is not "0"
RECURSIVE year_leading_zeros(_)
year_leading_zeros(year) ==
    IF Len(year) > 0 /\ year[1] = "0" /\ year # <<"0">>
    THEN 1 + year_leading_zeros(Tail(year))
    ELSE 0

\* RE_PRECISION ^(.+)/(\d+)$: <<text, digits>>, or None
RE_PRECISION_captures(v) ==
    LET slashes == {k \in 2..(Len(v) - 1) :
                       v[k] = "/" /\ AllIn(SubSeq(v, k + 1, Len(v)), Digits)}
    IN  IF slashes = {} THEN None
        ELSE LET k == CHOOSE i \in slashes : \A j \in slashes : i >= j
             IN  Some(<<SubSeq(v, 1, k - 1), SubSeq(v, k + 1, Len(v))>>)

\* a parse_time that returns the precision as it was given
precision_as_given(precision, month, day) == precision

\* parse_time: the precision after the looks at day and month
\* (PHP_COMPATIBILITY is true: a precision of 12 and more is not touched)
precision_for(precision, month, day) ==
    LET p1 == IF day = 0 /\ precision >= 11 THEN 10 ELSE precision
    IN  IF month = 0 /\ p1 >= 10 THEN 9 ELSE p1

\* the k-th part of the date, or the default when the parts end before
part_or(parts, k, default) == IF Len(parts) >= k THEN parts[k] ELSE default

\* QuickStatementsParser::parse_time with PHP_COMPATIBILITY = true
parse_time(value) ==
    IF ~(\/ Len(value) >= 1 /\ value[1] \in Digits
         \/ Len(value) >= 2 /\ value[1] \in {"+", "-"} /\ value[2] \in Digits)
    THEN None
    ELSE LET lead == IF value[1] = "-" THEN "-" ELSE "+"
             v0 == IF value[1] \in {"+", "-"} THEN Tail(value) ELSE value
             caps == RE_PRECISION_captures(v0)
             v1 == IF IsSome(caps) THEN Unwrap(caps)[1] ELSE v0
             precision == IF IsSome(caps) THEN parse_u64(Unwrap(caps)[2]) ELSE Some(9)
             parts == split_dash(replace_T_Z_colon(v1))
             zeros == year_leading_zeros(parts[1])
             year == parse_u64(SubSeq(parts[1], zeros + 1, Len(parts[1])))
             month == parse_u64(part_or(parts, 2, <<"1">>))
             day == parse_u64(part_or(parts, 3, <<"1">>))
             hour == parse_u64(part_or(parts, 4, <<"0">>))
             min == parse_u64(part_or(parts, 5, <<"0">>))
             sec == parse_u64(part_or(parts, 6, <<"0">>))
         IN  IF \E o \in {precision, year, month, day, hour, min, sec} : IsNone(o) THEN None
             ELSE Some([type |-> "Time",
                        precision |-> precision_for(Unwrap(precision), Unwrap(month),
                                                    Unwrap(day)),
                        time |-> <<lead>> \o SubSeq(parts[1], 1, zeros)
                                     \o u64_to_string(Unwrap(year)) \o <<"-">>
                                     \o format_02(Unwrap(month)) \o <<"-">>
                                     \o format_02(Unwrap(day)) \o <<"T">>
                                     \o format_02(Unwrap(hour)) \o <<":">>
                                     \o format_02(Unwrap(min)) \o <<":">>
                                     \o format_02(Unwrap(sec)) \o <<"Z">>])

\* texts of time values: sign, year, date and /precision
TimeTexts ==
    { sign \o year \o date \o suffix :
        sign \in {<<>>, <<"+">>, <<"-">>},
        year \in {<<"2", "0", "1", "9">>, <<"0">>, <<"0", "0", "7">>},
        date \in {<<>>, <<"-", "0", "6">>, <<"-", "0", "0">>,
                  <<"-", "0", "6", "-", "0", "7">>, <<"-", "0", "6", "-", "0", "0">>,
                  <<"-", "0", "0", "-", "0", "0">>, <<"-", "0", "0", "-", "0", "7">>,
                  <<"-", "0", "6", "-", "0", "7", "T", "1", "2", ":", "1", "3", ":", "1", "4",
                    "Z">>,
                  <<"-", "x">>},
        suffix \in {<<>>, <<"/", "8">>, <<"/", "9">>, <<"/", "1", "0">>, <<"/", "1", "1">>,
                    <<"/", "1", "2">>, <<"/", "1", "4">>, <<"/", "1", "5">>,
                    <<"/", "9", "9">>, <<"/">>} }

\* a text is about to be parsed as a time
InitTime ==
    /\ InitWorkerOff
    /\ parse_pc = "off"
    /\ lines = <<>>
    /\ main_item = <<>>
    /\ commands = <<>>
    /\ compressed = <<>>
    /\ commands_json = <<>>
    /\ run_json = <<>>
    /\ actions = <<>>
    /\ kb_run = <<>>
    /\ kb_batch = <<>>
    /\ value_pc = "off"
    /\ claim_dv = <<>>
    /\ command_dv = <<>>
    /\ same = <<>>
    /\ substituted = <<>>
    /\ next_batch = <<>>
    /\ time_pc = "start"
    /\ time_text \in TimeTexts
    /\ time_value = <<>>
    /\ task_pc = [b \in Batches |-> "none"]
    /\ task_cnt = [b \in Batches |-> 0]

\* parse_value: parse_time of the text
parse_time_value ==
    /\ time_pc = "start"
    /\ time_value' = parse_time(time_text)
    /\ time_pc' = "done"
    /\ UNCHANGED <<worker_vars, parse_vars, value_pc, claim_dv, command_dv, same, substituted,
                   next_batch, time_text, task_vars>>

SpecTime == InitTime /\ [][parse_time_value]_vars

\* =================================================== tasks and counters
\* command_bot shares one QuickStatements (Arc, no lock around it) between the
\* polling loop and the executors it spawns; running_batch_ids and user_counter
\* are RwLocks of their own, and each `.read()` / `.write()` below is one
\* critical section.

\* the batches are submitted without commands: an executor finds no INIT command
InitTasks ==
    /\ InitParseOff
    /\ batch_status = [b \in Batches |-> "INIT"]
    /\ batch_last_item = [b \in Batches |-> None]
    /\ ts_order \in SubmissionOrders
    /\ command_rows = [b \in Batches |-> <<>>]
    /\ running_batch_ids = {}
    /\ user_counter = [u \in Users |-> 0]
    /\ main_pc = "loop"
    /\ bots = [b \in Batches |-> <<>>]
    /\ wiki_entities = {}
    /\ wiki_claims = {}
    /\ wiki_labels = {}
    /\ wiki_quals = {}
    /\ wire = {}
    /\ dispatched = [b \in Batches |-> <<>>]
    /\ run_start = [b \in Batches |-> 0]
    /\ faults = 0
    /\ seppuku_pc = "none"
    /\ last_bot_run = "recent"

tasks_unchanged ==
    UNCHANGED <<parse_vars, value_pc, claim_dv, command_dv, same, substituted, next_batch,
                time_vars, batch_last_item, main_pc, bots, wiki_vars, dispatched, run_start,
                faults, sup_vars>>

\* run_bot on the polling loop: get_next_batch, and QuickStatementsBot::start
\* up to its call of set_batch_running.  The loop awaits start, so it is in
\* one start at a time.
start_task(b) ==
    /\ \A c \in Batches : task_pc[c] \notin {"insert", "read", "write"}
    /\ task_pc[b] = "none"
    /\ IsSome(get_next_batch)
    /\ Unwrap(get_next_batch)[1] = b
    /\ batch_status' = [batch_status EXCEPT ![b] = restart_batch_status(@)]
    /\ command_rows' = [command_rows EXCEPT ![b] = restart_batch_commands(@)]
    /\ ts_order' = IF batch_status[b] # "TEST" THEN Touch(ts_order, b) ELSE ts_order
    /\ task_pc' = [task_pc EXCEPT ![b] = "insert"]
    /\ UNCHANGED <<running_batch_ids, user_counter, task_cnt>>
    /\ tasks_unchanged

\* QuickStatements::set_batch_running, one lock at a time: the write of
\* running_batch_ids (after reinitialize_open_batches), the read of
\* user_counter, the write of user_counter; then the executor is spawned
set_batch_running(b) ==
    /\ task_pc[b] \in {"insert", "read", "write"}
    /\ CASE task_pc[b] = "insert" ->
                /\ batch_status' = reinitialize_open_batches(batch_status, command_rows)
                /\ running_batch_ids' = running_batch_ids \cup {b}
                /\ task_pc' = [task_pc EXCEPT ![b] = "read"]
                /\ UNCHANGED <<user_counter, task_cnt>>
         [] task_pc[b] = "read" ->
                /\ task_cnt' = [task_cnt EXCEPT ![b] = user_counter[UserOf(b)]]
                /\ task_pc' = [task_pc EXCEPT ![b] = "write"]
                /\ UNCHANGED <<batch_status, running_batch_ids, user_counter>>
         [] task_pc[b] = "write" ->
                /\ user_counter' = [user_counter EXCEPT ![UserOf(b)] = task_cnt[b] + 1]
                /\ task_pc' = [task_pc EXCEPT ![b] = "run"]
                /\ UNCHANGED <<batch_status, running_batch_ids, task_cnt>>
    /\ UNCHANGED <<command_rows, ts_order>>
    /\ tasks_unchanged

\* The executor's run finds no INIT command: set_batch_finished, that is
\* set_batch_status up to its call of deactivate_batch_run
finish_task(b) ==
    /\ task_pc[b] = "run"
    /\ IsNone(get_next_command(command_rows[b]))
    /\ batch_status' = [batch_status EXCEPT ![b] = "DONE"]
    /\ ts_order' = Touch(ts_order, b)
    /\ task_pc' = [task_pc EXCEPT ![b] = "stop_insert"]
    /\ UNCHANGED <<command_rows, running_batch_ids, user_counter, task_cnt>>
    /\ tasks_unchanged

\* QuickStatements::deactivate_batch_run, one lock at a time: the write of
\* running_batch_ids that inserts the id, the read of user_counter, the write
\* of user_counter, the write of running_batch_ids that removes the id
deactivate_batch_run(b) ==
    /\ task_pc[b] \in {"stop_insert", "stop_read", "stop_write", "stop_remove"}
    /\ CASE task_pc[b] = "stop_insert" ->
                /\ running_batch_ids' = running_batch_ids \cup {b}
                /\ task_pc' = [task_pc EXCEPT ![b] = "stop_read"]
                /\ UNCHANGED <<user_counter, task_cnt>>
         [] task_pc[b] = "stop_read" ->
                /\ task_cnt' = [task_cnt EXCEPT ![b] = user_counter[UserOf(b)]]
                /\ task_pc' = [task_pc EXCEPT ![b] = "stop_write"]
                /\ UNCHANGED <<running_batch_ids, user_counter>>
         [] task_pc[b] = "stop_write" ->
                /\ user_counter' = [user_counter EXCEPT ![UserOf(b)] = task_cnt[b] - 1]
                /\ task_pc' = [task_pc EXCEPT ![b] = "stop_remove"]
                /\ UNCHANGED <<running_batch_ids, task_cnt>>
         [] task_pc[b] = "stop_remove" ->
                /\ running_batch_ids' = running_batch_ids \ {b}
                /\ task_pc' = [task_pc EXCEPT ![b] = "ended"]
                /\ UNCHANGED <<user_counter, task_cnt>>
    /\ UNCHANGED <<batch_status, command_rows, ts_order>>
    /\ tasks_unchanged

NextTasks ==
    \E b \in Batches :
        \/ start_task(b)
        \/ set_batch_running(b)
        \/ finish_task(b)
        \/ deactivate_batch_run(b)

SpecTasks == InitTasks /\ [][NextTasks]_vars

\* ========================================================== properties
BatchesOf(u) == {b \in Batches : UserOf(b) = u}
Alive(b) == Len(bots[b]) > 0

C2_OneExecutorPerBatch ==
    /\ \A b \in Batches : Len(bots[b]) <= 1
    /\ IsSome(get_next_batch) => Unwrap(get_next_batch)[1] \notin running_batch_ids

\* the look into the running set decides: the oldest row the query returns
\* (status RUN, user below the cap) is a batch that already has its executor
C2_Witness ==
    /\ main_pc = "loop"
    /\ \E b \in running_batch_ids :
       /\ Len(bots[b]) = 1
       /\ batch_status[b] = "RUN"
       /\ UserOf(b) \notin bad_users
       /\ \A c \in Batches \ {b} : batch_status[c] \notin {"INIT", "RUN"}

StrictlyAscending(seq) == \A j \in 1..(Len(seq) - 1) : seq[j] < seq[j + 1]
StatusOf(b, n) == command_rows[b][n].status
Nums(b) == 1..Len(command_rows[b])

\* C3 as stated: over the whole life of a batch, restarts included, the nums
\* of the dispatched commands are strictly ascending (no command is dispatched
\* twice, none after a command with a higher num).
C3_AscendingAcrossRestarts == \A b \in Batches : StrictlyAscending(dispatched[b])

\* C3, amended: within one run of an executor (from its start to its end) the
\* dispatched nums are strictly ascending, and the command an executor holds
\* is the lowest-num command that was INIT when it was taken: no command with
\* a lower num is INIT.  A restart begins a new run, and a command that was
\* RUN when the process died is dispatched again.
C3_AscendingWithinRun ==
    \A b \in Batches :
        /\ StrictlyAscending(SubSeq(dispatched[b], run_start[b] + 1, Len(dispatched[b])))
        /\ \A i \in DOMAIN bots[b] :
               bots[b][i].pc = "exec" =>
                   \A m \in 1..(Unwrap(bots[b][i].command).num - 1) : StatusOf(b, m) # "INIT"

\* a restarted batch dispatches again the command its dead executor held, and
\* the new run has gone on to the next command
C3_Witness ==
    \E b \in Batches :
        /\ run_start[b] > 0
        /\ Len(dispatched[b]) >= run_start[b] + 2
        /\ dispatched[b][run_start[b] + 1] = dispatched[b][run_start[b]]

\* C4, steps: a command changes status only INIT -> RUN -> (DONE | ERROR),
\* apart from the reset of RUN to INIT when a batch without executor is
\* started again.
C4_StatusSteps ==
    \A b \in Batches : \A n \in Nums(b) :
        \/ StatusOf(b, n)' = StatusOf(b, n)
        \/ StatusOf(b, n) = "INIT" /\ StatusOf(b, n)' = "RUN"
        \/ StatusOf(b, n) = "RUN" /\ StatusOf(b, n)' \in {"DONE", "ERROR"}
        \/ StatusOf(b, n) = "RUN" /\ StatusOf(b, n)' = "INIT" /\ ~Alive(b)

\* C4, states: while the executor holds a command that command alone is RUN,
\* and whenever the executor is at the fetch of the next command no command of
\* its batch is RUN.
C4_NoRunLeftBehind ==
    \A b \in Batches : \A i \in DOMAIN bots[b] :
        /\ bots[b][i].pc = "run" => \A n \in Nums(b) : StatusOf(b, n) # "RUN"
        /\ bots[b][i].pc = "exec" =>
               \A n \in Nums(b) :
                   StatusOf(b, n) = "RUN" <=> n = Unwrap(bots[b][i].command).num

C5_DoneOnlyWhenNoInit ==
    [][\A b \in Batches :
          (batch_status[b] # "DONE" /\ batch_status'[b] = "DONE")
              => \A n \in Nums(b) : StatusOf(b, n) # "INIT"]_vars

\* C6: when a create command is marked DONE, the executor's last_entity_id and
\* the batch's last_item are the id of the entity the wiki created.
C6_LastIsCreatedEntity ==
    [][\A b \in Batches : \A i \in DOMAIN bots[b] :
          (/\ bots[b][i].pc = "exec"
           /\ Unwrap(bots[b][i].command).json.action = "create"
           /\ command_rows'[b][Unwrap(bots[b][i].command).num].status = "DONE")
              => \E q \in wiki_entities' \ wiki_entities :
                     /\ bots'[b][i].last_entity_id = Some(q)
                     /\ batch_last_item'[b] = Some(q)]_vars

\* C7: the last item of a batch, in its executor and in the store, changes
\* only in a step that marks a command of the batch DONE.
C7_LastItemChangesOnlyOnDone ==
    [][\A b \in Batches :
          (\/ batch_last_item'[b] # batch_last_item[b]
           \/ \E i \in DOMAIN bots[b] :
                  /\ i \in DOMAIN bots'[b]
                  /\ bots'[b][i].last_entity_id # bots[b][i].last_entity_id)
              => \E n \in Nums(b) : StatusOf(b, n) # "DONE" /\ StatusOf(b, n)' = "DONE"]_vars

IsLastSubject(json) == IsSome(json.item) /\ fix_entity_id(Unwrap(json.item)) = Str_LAST

\* C8: when the executor finishes an add or remove command whose subject is
\* LAST (in any case, with surrounding blanks) and its last item is unset
\* (None, or the empty string the store hands back for an unset last item),
\* the command is marked ERROR and no action is posted to the wiki.
C8_LastSubjectWithoutLastItem ==
    [][\A b \in Batches : \A i \in DOMAIN bots[b] :
          (/\ bots[b][i].pc = "exec"
           /\ Unwrap(bots[b][i].command).json.action \in {"add", "remove"}
           /\ IsLastSubject(Unwrap(bots[b][i].command).json)
           /\ bots[b][i].last_entity_id \in {None, Some(Str_empty)}
           /\ i \in DOMAIN bots'[b]
           /\ bots'[b][i].pc = "run")
              => /\ command_rows'[b][Unwrap(bots[b][i].command).num].status = "ERROR"
                 /\ wire' = wire]_vars

\* an add and a remove with subject LAST have ended ERROR as the first command
\* of their batches, and their batches have posted nothing
C8_Witness ==
    /\ \E b \in Batches :
          /\ command_rows[b][1].json.action = "add"
          /\ IsLastSubject(ProgramOf(b)[1])
          /\ StatusOf(b, 1) = "ERROR"
          /\ \A a \in wire : a.batch # b
    /\ \E b \in Batches :
          /\ command_rows[b][1].json.action = "remove"
          /\ IsLastSubject(ProgramOf(b)[1])
          /\ StatusOf(b, 1) = "ERROR"
          /\ \A a \in wire : a.batch # b

\* C9: no action posted to the wiki carries the literal LAST as its value.
C9_NoLiteralLastOnWire ==
    \A a \in wire : IsSome(a.value) => fix_entity_id(Unwrap(a.value)) # Str_LAST

\* C10 as stated: the DONE commands of a batch are a prefix of its commands.
C10_DonePrefix ==
    \A b \in Batches : \A n \in Nums(b) :
        StatusOf(b, n) = "DONE" => \A m \in 1..(n - 1) : StatusOf(b, m) = "DONE"

\* C10, amended: the commands of a batch that are no longer INIT are a prefix
\* of its commands, and every command before one of them is DONE or ERROR; a
\* command that ended ERROR can precede a DONE command.
C10_FinishedPrefix ==
    \A b \in Batches : \A n \in Nums(b) :
        StatusOf(b, n) # "INIT" =>
            \A m \in 1..(n - 1) : StatusOf(b, m) \in {"DONE", "ERROR"}

\* a command is DONE after a command with a lower num that ended ERROR
C10_Witness ==
    \E b \in Batches : \E n \in Nums(b) : \E m \in 1..(n - 1) :
        StatusOf(b, n) = "DONE" /\ StatusOf(b, m) = "ERROR"

\* C11: once a batch's status is STOP its executor dispatches no further
\* command of the batch, and the commands that are INIT keep that status.
C11_StopHaltsBatch ==
    [][\A b \in Batches :
          batch_status[b] = "STOP"
              => /\ dispatched'[b] = dispatched[b]
                 /\ \A n \in Nums(b) : StatusOf(b, n) = "INIT" => StatusOf(b, n)' = "INIT"]_vars

\* C12: while the process runs, a batch's stored status is RUN if and only if
\* its id is in the running set.
C12_RunIffHeld ==
    main_pc = "loop" =>
        \A b \in Batches : batch_status[b] = "RUN" <=> b \in running_batch_ids

Stalled == main_pc = "loop" /\ last_bot_run = "old" /\ IsSome(get_next_batch)

\* C13: whenever the polling loop has made no progress for more than T seconds
\* while get_next_batch would return a batch, the supervisor eventually exits
\* the process (unless the loop makes progress again first).
C13_SeppukuExits == Stalled ~> (main_pc = "exited" \/ ~Stalled)

\* C14: a command whose last answer from the wiki was the error
\* actionthrottledtext has not ended in ERROR.
C14_ThrottledNeverError ==
    \A b \in Batches : \A n \in Nums(b) :
        command_rows[b][n].json.meta = Msg_throttled => StatusOf(b, n) # "ERROR"

\* C15: an add-qualifier command that the wiki rejected because the statement
\* already has the qualifier is DONE, with the wiki's message in
\* json.meta.message.
C15_QualifierExistsIsDone ==
    \A b \in Batches : \A n \in Nums(b) :
        (/\ command_rows[b][n].json.what = "qualifier"
         /\ command_rows[b][n].json.meta = Msg_qualifier_exists)
            => StatusOf(b, n) = "DONE"

\* the JSON commands of the lines, with the Result of compiling each:
\* <<k, i>> is the i-th JSON of the k-th parsed command
Lowered == {ki \in (1..Len(run_json)) \X (1..3) :
               run_json[ki[1]].res = "Ok" /\ ki[2] <= Len(run_json[ki[1]].v)}
JsonAt(ki) == run_json[ki[1]].v[ki[2]]
ActionAt(ki) == actions[ki[1]][ki[2]]

\* the lines that new_from_line parsed, in order
ok_lines == SelectSeq(kept_lines(lines), LAMBDA l : new_from_line(l).res = "Ok")

\* the claim has the datavalue dv: the same type, and the same value
has_datavalue(claim, dv) ==
    /\ IsSome(claim.datavalue)
    /\ Unwrap(claim.datavalue).type = dv.type
    /\ Unwrap(claim.datavalue).value = dv.value

\* what an add command would write is on the entity already
target_present(json, item) ==
    CASE json.what = "label" ->
            [language |-> json.language, value |-> json.value] \in item.labels
      [] json.what = "description" ->
            [language |-> json.language, value |-> json.value] \in item.descriptions
      [] json.what = "alias" ->
            [language |-> json.language, value |-> json.value] \in item.aliases
      [] json.what = "sitelink" ->
            [site |-> json.site, title |-> json.value] \in item.sitelinks
      [] json.what = "statement" ->
            \E k \in 1..Len(item.claims) :
                /\ item.claims[k].property = json.property
                /\ has_datavalue(item.claims[k], json.datavalue)
      [] OTHER -> FALSE

\* C16: an add command for a label, description, alias, sitelink or statement
\* that the entity snapshot already has compiles to already_done, so that no
\* request is sent.
C16_AddIsIdempotent ==
    parse_pc = "compiled" =>
        \A ki \in Lowered :
            (/\ JsonAt(ki).action = "add"
             /\ JsonAt(ki).what \in {"label", "description", "alias", "sitelink", "statement"}
             /\ target_present(JsonAt(ki), Unwrap(main_item)))
                => ActionAt(ki) = already_done

\* the entity has a statement with the command's property and datavalue
base_statement_present(json, item) ==
    \E k \in 1..Len(item.claims) :
        /\ item.claims[k].property = json.property
        /\ has_datavalue(item.claims[k], json.datavalue)

needs_base_statement(json) ==
    \/ json.action = "add" /\ json.what \in {"qualifier", "sources"}
    \/ json.action = "remove" /\ json.what = "statement"

C19_ParseRoundTrip ==
    parse_pc = "compiled" =>
        \A k \in 1..Len(run_json) :
            /\ run_json[k].res = "Ok"
            /\ Len(run_json[k].v) >= 1
            /\ \A i \in 1..Len(run_json[k].v) :
                   \E e \in Snapshots : action_to_execute(run_json[k].v[i], Some(e)).res = "Ok"

\* C20: the line MERGE<tab>A<tab>B with two entity ids compiles to exactly one
\* action, wbmergeitems with fromid B, toid A and ignoreconflicts
\* "description".
C20_MergeFromSecondToFirst ==
    parse_pc = "compiled" =>
        \A k \in 1..Len(run_json) :
            LET cols == split_tab(ok_lines[k]) IN
            to_uppercase(cols[1]) = Str_MERGE =>
                /\ run_json[k].res = "Ok"
                /\ actions[k] = <<ResultOk([action |-> "wbmergeitems",
                                            fromid |-> to_uppercase(str_trim(cols[3])),
                                            toid |-> to_uppercase(str_trim(cols[2])),
                                            ignoreconflicts |-> "description"])>>

\* a MERGE line with two different ids, written in lower case, has been compiled
C20_Witness ==
    /\ parse_pc = "compiled"
    /\ \E k \in 1..Len(run_json) :
           LET cols == split_tab(ok_lines[k]) IN
           /\ cols[1] = Str_merge_lower
           /\ Len(actions[k]) = 1
           /\ actions[k][1].res = "Ok"
           /\ actions[k][1].v.fromid # actions[k][1].v.toid

\* the content of an entity: its terms and sitelinks, and its statements
\* without their ids and their order
entity_content(e) ==
    [id |-> e.id, labels |-> e.labels, descriptions |-> e.descriptions,
     aliases |-> e.aliases, sitelinks |-> e.sitelinks,
     claims |-> {[property |-> e.claims[k].property,
                  datavalue |-> e.claims[k].datavalue,
                  qualifiers |-> {e.claims[k].qualifiers[j] :
                                     j \in 1..Len(e.claims[k].qualifiers)},
                  references |-> {e.claims[k].references[j] :
                                     j \in 1..Len(e.claims[k].references)}] :
                    k \in 1..Len(e.claims)}]

\* the lines are CREATE followed by lines that each parse to a command with
\* subject LAST and without the modifier Remove
create_list ==
    /\ Len(commands) >= 2
    /\ \A k \in 1..Len(commands) : commands[k].res = "Ok"
    /\ commands[1].v.command = "Create"
    /\ \A k \in 2..Len(commands) :
           /\ commands[k].v.command # "Create"
           /\ IsSome(commands[k].v.item)
           /\ Unwrap(commands[k].v.item).kind = "Last"
           /\ get_action(commands[k].v) = "add"

\* C18: when the lines are CREATE followed by commands with subject LAST and
\* modifier Add, running the compressed commands and running the lines one by
\* one, each on an empty wiki, leave entities of the same content.
C18_CompressionEquivalence ==
    (parse_pc = "executed" /\ create_list) =>
        {entity_content(e) : e \in kb_batch.wiki} = {entity_content(e) : e \in kb_run.wiki}

\* the columns new_from_line reads of the k-th kept line
parts_of(k) == split_tab(replace_bars(str_trim(parse_comment(kept_lines(lines)[k]).line)))

\* s, trimmed and in upper case, is an entity id ^[QP]\d+$ (and so not LAST)
entity_id_operand(s) ==
    LET id == to_uppercase(str_trim(s)) IN
    Len(id) >= 2 /\ id[1] \in {"Q", "P"} /\ AllIn(Tail(id), Digits)

\* C21: a MERGE line is parsed to a command exactly when it has two operands
\* that are both entity ids other than LAST; with an operand missing, not an
\* entity id, or LAST, the line gives a parse error and no command.  A parsed
\* MERGE is the Merge command of the two ids.
C21_MergeNeedsTwoEntityIds ==
    \A k \in 1..Len(commands) :
        to_uppercase(parts_of(k)[1]) = Str_MERGE =>
            /\ commands[k].res \in {"Ok", "Err"}
            /\ commands[k].res = "Ok" <=>
                   /\ Len(parts_of(k)) >= 3
                   /\ entity_id_operand(parts_of(k)[2])
                   /\ entity_id_operand(parts_of(k)[3])
            /\ commands[k].res = "Ok" =>
                   /\ commands[k].v.command = "Merge"
                   /\ Unwrap(commands[k].v.item).kind = "Id"
                   /\ Unwrap(commands[k].v.target_item).kind = "Id"

\* a MERGE line whose second operand is LAST has given a parse error
C21_Witness ==
    \E k \in 1..Len(commands) :
        /\ to_uppercase(parts_of(k)[1]) = Str_MERGE
        /\ Len(parts_of(k)) >= 3
        /\ entity_id_operand(parts_of(k)[2])
        /\ to_uppercase(str_trim(parts_of(k)[3])) = Str_LAST
        /\ commands[k].res = "Err"

\* a time string without the leading zeros of its year: the sign if there is
\* one, and the rest from the first character that is not a zero before a
\* digit
year_without_zeros(t) ==
    LET sign == IF t[1] \in {"+", "-"} THEN <<t[1]>> ELSE <<>>
        rest == SubSeq(t, Len(sign) + 1, Len(t))
        first == CHOOSE k \in 1..Len(rest) :
                     /\ rest[k] # "0" \/ k = Len(rest) \/ rest[k + 1] \notin Digits
                     /\ \A j \in 1..(k - 1) : rest[j] = "0" /\ rest[j + 1] \in Digits
    IN  sign \o SubSeq(rest, first, Len(rest))

\* C22: two time datavalues with the same calendar model are the same for
\* is_same_datavalue when their time strings differ only in leading zeros of
\* the year (after the sign, if any), and not the same when the time strings
\* differ after these zeros are removed.
C22_TimeLeadingZeros ==
    (value_pc = "done" /\ claim_dv.value.calendarmodel = command_dv.value.calendarmodel) =>
        same = Some(year_without_zeros(claim_dv.value.time)
                       = year_without_zeros(command_dv.value.time))

\* two time strings that differ, and only in leading zeros of the year, were
\* found the same
C22_Witness ==
    /\ value_pc = "done"
    /\ claim_dv.value.calendarmodel = command_dv.value.calendarmodel
    /\ claim_dv.value.time # command_dv.value.time
    /\ year_without_zeros(claim_dv.value.time) = year_without_zeros(command_dv.value.time)
    /\ same = Some(TRUE)

\* C23: a remove-sitelink command compiles to wbsetsitelink of the entity
\* with the command's site and linktitle "", whatever the title of the
\* command and whatever sitelinks the entity has, and the value of the
\* command's JSON is after the compilation the title it was before.
C23_RemoveSitelink ==
    parse_pc = "compiled" =>
        \A ki \in Lowered :
            (JsonAt(ki).action = "remove" /\ JsonAt(ki).what = "sitelink") =>
                /\ ActionAt(ki) = ResultOk([action |-> "wbsetsitelink",
                                            id |-> Unwrap(main_item).id,
                                            linksite |-> JsonAt(ki).site,
                                            linktitle |-> Str_empty])
                /\ JsonAt(ki) = to_json(ok_values(commands)[ki[1]]).v[ki[2]]
                /\ JsonAt(ki).value = Unwrap(ok_values(commands)[ki[1]].sitelink).title
                /\ Len(JsonAt(ki).value) > 0

\* a remove-sitelink command was compiled against an entity that has the
\* sitelink with the title of the command
C23_Witness ==
    /\ parse_pc = "compiled"
    /\ \E ki \in Lowered :
           /\ JsonAt(ki).action = "remove"
           /\ JsonAt(ki).what = "sitelink"
           /\ [site |-> JsonAt(ki).site, title |-> JsonAt(ki).value]
                  \in Unwrap(main_item).sitelinks
           /\ ActionAt(ki).res = "Ok"
           /\ ActionAt(ki).v.action = "wbsetsitelink"

\* the datavalue is the entity id LAST
is_last_value(dv) ==
    /\ Has(dv, "type")
    /\ dv.type = "wikibase-entityid"
    /\ fix_entity_id(dv.value.id) = Str_LAST

\* C24: with a last item set, after the replacement of LAST no entry of a
\* command's sources has the entity id LAST as its value (as none has in the
\* datavalue and the qualifier value): it has been replaced by the last item.
C24_LastReplacedInSources ==
    (parse_pc = "substituted" /\ IsSome(substituted.last_entity_id)) =>
        \A ki \in Lowered :
            LET json == substituted.json[ki[1]][ki[2]] IN
            /\ Has(json, "datavalue") => ~is_last_value(json.datavalue)
            /\ Has(json, "qualifier") => ~is_last_value(json.qualifier.value)
            /\ Has(json, "sources") =>
                   \A k \in 1..Len(json.sources) : ~is_last_value(json.sources[k].value)

\* C24, datavalue and qualifier only: with a last item set, LAST as the main
\* value and as a qualifier value is replaced by the last item
C24_LastReplacedInValues ==
    (parse_pc = "substituted" /\ IsSome(substituted.last_entity_id)) =>
        \A ki \in Lowered :
            LET json == substituted.json[ki[1]][ki[2]] IN
            /\ (Has(JsonAt(ki), "datavalue") /\ is_last_value(JsonAt(ki).datavalue)) =>
                   json.datavalue.value.id = Unwrap(substituted.last_entity_id)
            /\ (Has(JsonAt(ki), "qualifier") /\ is_last_value(JsonAt(ki).qualifier.value)) =>
                   json.qualifier.value.value.id = Unwrap(substituted.last_entity_id)

\* C25: restart_batch sets a batch's status to RUN only when the status was INIT
\* or already RUN; a batch that is STOP, DONE, ERROR or BLOCKED when
\* QuickStatementsBot::start claims it keeps its status.
C25_ClaimOnlyInitOrRun ==
    [][\A b \in Batches :
          batch_status[b] \in {"STOP", "DONE", "ERROR", "BLOCKED"}
              => batch_status'[b] # "RUN"]_vars

\* the step in which QuickStatementsBot::start claims batch b
claimed(b) == b \notin running_batch_ids /\ b \in running_batch_ids'

\* C26: restart_batch resets to INIT exactly the RUN commands of the claimed
\* batch; its DONE and ERROR commands and all commands of other batches keep
\* their status.
C26_RestartResetsRunCommands ==
    [][\A b \in Batches :
          claimed(b) =>
              /\ \A n \in Nums(b) :
                     StatusOf(b, n)' = IF StatusOf(b, n) = "RUN" THEN "INIT" ELSE StatusOf(b, n)
              /\ \A c \in Batches \ {b} : command_rows'[c] = command_rows[c]]_vars

\* a batch has just been claimed again after the process died: a command the
\* dead executor had marked RUN is INIT, a command it had finished is still
\* DONE, and the new executor has dispatched nothing yet
C26_Witness ==
    \E b \in running_batch_ids :
        /\ Alive(b)
        /\ run_start[b] = Len(dispatched[b])
        /\ Len(dispatched[b]) > 0
        /\ \E n, m \in Nums(b) :
               /\ n = dispatched[b][Len(dispatched[b])]
               /\ StatusOf(b, n) = "INIT"
               /\ StatusOf(b, m) = "DONE"

\* the step is a call of get_next_batch: by run_bot when it claims a batch, or
\* by the task seppuku spawned
polls == \/ \E b \in Batches : claimed(b)
         \/ seppuku_pc = "check" /\ seppuku_pc' # "check" /\ faults' = faults

\* C27: on startup reset_all_running_batches runs once, before the first
\* get_next_batch: the step that opens the polling loop leaves no batch RUN,
\* no get_next_batch comes before it, and no later step of the process
\* reverts a RUN batch to INIT.
C27_ResetOnceBeforePolling ==
    [][/\ (main_pc = "boot" /\ main_pc' # "boot") =>
             /\ main_pc' = "loop"
             /\ \A b \in Batches :
                    batch_status'[b] = IF batch_status[b] = "RUN" THEN "INIT"
                                       ELSE batch_status[b]
       /\ polls => main_pc = "loop"
       /\ (main_pc = "loop" /\ main_pc' = "loop") =>
             \A b \in Batches : ~(batch_status[b] = "RUN" /\ batch_status'[b] = "INIT")]_vars

\* the polling loop has just opened after the process died: a batch whose
\* executor died in the middle of a command (the command is still RUN) is
\* INIT, nothing holds it, and get_next_batch has not been called yet
C27_Witness ==
    /\ main_pc = "loop"
    /\ seppuku_pc = "check"
    /\ faults > 0
    /\ running_batch_ids = {}
    /\ \E b \in Batches :
          /\ batch_status[b] = "INIT"
          /\ \E n \in Nums(b) : StatusOf(b, n) = "RUN"

\* the batches get_next_batch may return according to C28
eligible ==
    {b \in Batches : /\ batch_status[b] \in {"INIT", "RUN"}
                     /\ b \notin running_batch_ids
                     /\ user_counter[UserOf(b)] < max_batches_per_user}

\* the place of a batch in the order of ts_last_change
ts_rank(b) == CHOOSE k \in 1..Len(ts_order) : ts_order[k] = b

\* C28: get_next_batch returns, among the INIT or RUN batches that are not in
\* the running set and whose user is below the cap, the one with the oldest
\* ts_last_change, and nothing only when there is no such batch.
C28_NextBatchOldestEligible ==
    IF eligible = {} THEN IsNone(get_next_batch)
    ELSE /\ IsSome(get_next_batch)
         /\ Unwrap(get_next_batch)[1] \in eligible
         /\ \A c \in eligible : ts_rank(Unwrap(get_next_batch)[1]) <= ts_rank(c)

\* the content of entity id on the wiki differs before and after the step
entity_changed(id) ==
    snapshot(id, wiki_claims, wiki_labels) # snapshot(id, wiki_claims', wiki_labels')

\* C29: after every successful write of an executor, the snapshot it holds of
\* each entity the write changed is dropped or replaced by the new content;
\* for add, remove, create and merge alike.
C29_CacheInvalidatedAfterWrite ==
    [][\A b \in Batches : \A i \in DOMAIN bots[b] :
          (i \in DOMAIN bots'[b] /\ bots[b][i].pc = "exec" /\ bots'[b][i].pc = "run") =>
              \A id \in wiki_entities' :
                  entity_changed(id) =>
                      \A e \in bots'[b][i].entities :
                          e.id = id => e = snapshot(id, wiki_claims', wiki_labels')]_vars

\* command c has subject LAST, modifier Add, and is a statement, label,
\* description, alias or sitelink
last_add_command(c) ==
    /\ IsSome(c.item)
    /\ Unwrap(c.item).kind = "Last"
    /\ get_action(c) = "add"
    /\ c.command \in {"EditStatement", "SetLabel", "SetDescription", "SetAlias", "SetSitelink"}

\* C30: after compress no command with subject LAST and modifier Add that is a
\* statement, label, description, alias or sitelink directly follows a Create;
\* each such command is gone from the list and the Create carries its data.
C30_NoLastAddAfterCreate ==
    parse_pc \in {"compressed", "lowered", "compiled", "executed", "substituted"} =>
        /\ \A k \in 2..Len(compressed) :
               compressed[k - 1].command = "Create" => ~last_add_command(compressed[k])
        /\ create_list /\ (\A k \in 2..Len(commands) : last_add_command(commands[k].v)) =>
               /\ Len(compressed) = 1
               /\ compressed[1].command = "Create"
               /\ IsSome(compressed[1].create_data)

\* CREATE, LAST Len "x", LAST P1 Q5 has become one Create with that label and
\* that claim
C30_Witness ==
    /\ parse_pc = "compressed"
    /\ Len(commands) = 3
    /\ create_list
    /\ Len(compressed) = 1
    /\ compressed[1].command = "Create"
    /\ IsSome(compressed[1].create_data)
    /\ LET cd == Unwrap(compressed[1].create_data) IN
       /\ \E l \in cd.labels : l.language = <<"e", "n">>
       /\ Len(cd.claims) = 1
       /\ cd.claims[1].mainsnak.property = Str_P1

\* C31: datavalue equality is structural: when is_same_datavalue finds two time
\* datavalues the same, they agree in every field (calendar model, precision,
\* timezone, before, after), and their time strings differ at most in leading
\* zeros of the year.
C31_StructuralEquality ==
    (value_pc = "done" /\ same = Some(TRUE)) =>
        /\ claim_dv.type = command_dv.type
        /\ claim_dv.value.calendarmodel = command_dv.value.calendarmodel
        /\ claim_dv.value.precision = command_dv.value.precision
        /\ claim_dv.value.timezone = command_dv.value.timezone
        /\ claim_dv.value.before = command_dv.value.before
        /\ claim_dv.value.after = command_dv.value.after
        /\ year_without_zeros(claim_dv.value.time) = year_without_zeros(command_dv.value.time)

\* the key and value columns that follow the first three columns of line k
key_values(k) ==
    [j \in 1..((Len(parts_of(k)) - 3) \div 2) |->
        [key |-> parts_of(k)[2 + 2 * j], value |-> parts_of(k)[3 + 2 * j]]]

\* the qualifiers (keys P..) and references (keys S..) of line k, in the order
\* of the line, as {prop, value} members
line_members(k, letter) ==
    LET kvs == SelectSeq(key_values(k), LAMBDA kv : kv.key[1] = letter) IN
    [j \in 1..Len(kvs) |->
        [prop |-> <<"P">> \o Tail(kvs[j].key),
         value |-> Value_to_json(Unwrap(parse_value(kvs[j].value)))]]

\* C32: to_json lowers an add-statement line with q qualifiers and r
\* references to one statement command, then the q qualifier commands in the
\* order of the line, then, when r > 0, one sources command with all r
\* references; a remove-statement line to the statement command alone.
C32_LoweringOrder ==
    (parse_pc \in {"lowered", "compiled", "executed", "substituted"}
         /\ \A k \in 1..Len(commands) : commands[k].res = "Ok") =>
        \A k \in 1..Len(commands) :
            commands[k].v.command = "EditStatement" =>
                LET js == run_json[k].v
                    quals == line_members(k, "P")
                    refs == line_members(k, "S")
                IN  /\ run_json[k].res = "Ok"
                    /\ js[1].what = "statement"
                    /\ IF str_trim(parts_of(k)[1])[1] = "-" THEN Len(js) = 1
                       ELSE /\ Len(js) = 1 + Len(quals) + (IF Len(refs) > 0 THEN 1 ELSE 0)
                            /\ \A j \in 1..Len(quals) :
                                   /\ js[1 + j].what = "qualifier"
                                   /\ js[1 + j].qualifier = quals[j]
                            /\ Len(refs) > 0 =>
                                   /\ js[Len(js)].what = "sources"
                                   /\ js[Len(js)].sources = refs

\* a line with two qualifiers and two references among each other is lowered
\* to four commands
C32_Witness ==
    /\ parse_pc = "lowered"
    /\ Len(commands) = 1
    /\ commands[1].res = "Ok"
    /\ commands[1].v.command = "EditStatement"
    /\ Len(line_members(1, "P")) = 2
    /\ Len(line_members(1, "S")) = 2
    /\ Len(run_json[1].v) = 4
    /\ run_json[1].v[4].what = "sources"

\* line k is a statement line (an entity, a property, a value) that goes on
\* with a qualifier or reference key without a value, or with a qualifier or
\* reference value that no rule of parse_value accepts
malformed_members(k) ==
    /\ Len(parts_of(k)) > 3
    /\ check_prop(to_uppercase(str_trim(parts_of(k)[2])))
    /\ \/ (Len(parts_of(k)) - 3) % 2 = 1
       \/ \E j \in 1..Len(key_values(k)) : IsNone(parse_value(key_values(k)[j].value))

\* C33: a statement line with a qualifier or reference key that has no value,
\* or with a qualifier or reference value that no value rule accepts, makes
\* new_from_line return an error; the parser does not abort.
C33_MalformedLineIsError ==
    parse_pc # "start" =>
        \A k \in 1..Len(commands) : malformed_members(k) => commands[k].res = "Err"

\* month and day as the time string of the parsed value has them
parsed_month == Unwrap(parse_u64(split_dash(Tail(Unwrap(time_value).time))[2]))
parsed_day == Unwrap(parse_u64(SubSeq(split_dash(Tail(Unwrap(time_value).time))[3], 1, 2)))

\* the precision the text asks for: the number after the last "/", else 9
asked_precision ==
    LET text == IF time_text[1] \in {"+", "-"} THEN Tail(time_text) ELSE time_text IN
    IF IsSome(RE_PRECISION_captures(text))
    THEN Unwrap(parse_u64(Unwrap(RE_PRECISION_captures(text))[2]))
    ELSE 9

\* C34: parse_time clamps the precision downward: with day 0 it is at most
\* 10, with month 0 at most 9; a precision that is within these bounds is
\* returned as it was asked for, and without /precision it is 9.
C34_PrecisionClamped ==
    (time_pc = "done" /\ IsSome(time_value)) =>
        LET precision == Unwrap(time_value).precision IN
        /\ parsed_day = 0 => precision <= 10
        /\ parsed_month = 0 => precision <= 9
        /\ precision <= asked_precision
        /\ ((parsed_day # 0 \/ asked_precision <= 10)
                /\ (parsed_month # 0 \/ asked_precision <= 9)) => precision = asked_precision

\* a date with day 00 and /11 was parsed to precision 10
C34_Witness ==
    /\ time_pc = "done"
    /\ IsSome(time_value)
    /\ parsed_day = 0
    /\ parsed_month # 0
    /\ asked_precision = 11
    /\ Unwrap(time_value).precision = 10

\* C35: every Time value parse_time returns has a precision in 0..14,
\* whatever /precision the text ends with.
C35_PrecisionInRange ==
    (time_pc = "done" /\ IsSome(time_value)) => Unwrap(time_value).precision \in 0..14

\* the tasks that are inside set_batch_running or deactivate_batch_run
calls_in_progress == {b \in Batches : task_pc[b] \notin {"none", "run", "ended"}}

\* C36: under every interleaving of set_batch_running on the polling loop and
\* deactivate_batch_run on the executors' tasks, no user's counter is ever
\* negative, and whenever no call is in progress each user's counter equals
\* the number of that user's batch ids in the running set.
C36_CounterMatchesRunningSet ==
    /\ \A u \in Users : user_counter[u] >= 0
    /\ calls_in_progress = {} =>
           \A u \in Users :
               user_counter[u] = Cardinality({b \in running_batch_ids : UserOf(b) = u})

\* C37: every batch id in the running set has an executor: when an executor
\* stops, because no INIT command is left or because the store write that
\* finishes the batch fails, its batch id leaves the running set and its
\* user's counter is decremented.
C37_RunningSetHasExecutors ==
    /\ \A b \in running_batch_ids : Len(bots[b]) > 0
    /\ \A u \in Users :
           user_counter[u] = Cardinality({b \in Batches : UserOf(b) = u /\ Len(bots[b]) > 0})

\* C38: the last item an executor has persisted for its batch is loaded back
\* unchanged by a restart of the batch: get_last_item_from_batch of the stored
\* column equals the executor's last_entity_id, unset for unset and the id for
\* an id.
C38_LastItemRoundTrip ==
    \A b \in Batches :
        (Len(bots[b]) > 0 /\ Len(dispatched[b]) > run_start[b]) =>
            get_last_item_from_batch(batch_last_item[b]) = bots[b][1].last_entity_id

\* the k-th smallest member of the set S of positions
nth_position(S, k) == CHOOSE x \in S : Cardinality({y \in S : y < x}) = k - 1

\* the positions kept of the list input give the list output: the commands
\* are in their order, a command is removed only if it is an Add on LAST that
\* follows a Create with nothing kept in between, and is changed only if it is
\* a Create whose follower was removed, and then only in its create_data
compress_frame(input, output, kept) ==
    /\ Cardinality(kept) = Len(output)
    /\ \A i \in (1..Len(input)) \ kept :
           /\ last_add_command(input[i])
           /\ \E j \in kept :
                  /\ j < i
                  /\ input[j].command = "Create"
                  /\ \A m \in (j + 1)..i : m \notin kept
    /\ \A k \in 1..Len(output) :
           LET i == nth_position(kept, k) IN
           IF input[i].command = "Create" /\ i < Len(input) /\ (i + 1) \notin kept
           THEN /\ IsSome(output[k].create_data)
                /\ output[k] = [input[i] EXCEPT !.create_data = output[k].create_data]
           ELSE output[k] = input[i]

\* C39: compress ends on every command list, and its output is the input with
\* the folded commands removed: the commands kept are in their original
\* order, every command other than a Create that received data is unchanged,
\* and the number of Create commands is the number in the input.
C39_CompressFrame ==
    parse_pc \in {"compressed", "lowered", "compiled", "executed", "substituted"} =>
        LET input == ok_values(commands) IN
        /\ \E kept \in SUBSET (1..Len(input)) : compress_frame(input, compressed, kept)
        /\ Cardinality({k \in 1..Len(compressed) : compressed[k].command = "Create"})
               = Cardinality({k \in 1..Len(input) : input[k].command = "Create"})

\* CREATE, LAST P1 Q5, Q1 P1 Q5, LAST P2 Q1 has become the Create with the
\* claim, followed by the two commands that were not folded
C39_Witness ==
    /\ parse_pc = "compressed"
    /\ Len(ok_values(commands)) = 4
    /\ Len(compressed) = 3
    /\ compressed[1].command = "Create"
    /\ IsSome(compressed[1].create_data)
    /\ compressed[2] = ok_values(commands)[3]
    /\ compressed[3] = ok_values(commands)[4]
    /\ last_add_command(compressed[3])


====
